---- MODULE Spec2Model ----
(***************************************************************************)
(* Policy Gate of the mortgage pre-screening demo                          *)
(* (src/app/api/generate-structure/route.ts, first handler, lines 1-388).  *)
(*                                                                         *)
(* Numbers.  A JavaScript number is modelled by an integer count of        *)
(* 1/Unit (Unit = 10^5): 600 man-yen is 60000000.  A quotient is cut       *)
(* toward zero at that unit, so a value is within one unit of the real     *)
(* value of the source expression; sums, differences, comparisons and      *)
(* quotients that are exact at that unit (100/1000*100 = 10, 700/100 = 7)  *)
(* are exact.  (1+r)^n is carried at PowScale = 10^8 and is within 5e-6 of  *)
(* the real power, so an amortized amount is within 0.05 man-yen of the    *)
(* real one.  TLC integers are 32 bits wide, so a product that would not   *)
(* fit is formed by MulDiv.                                                *)
(*                                                                         *)
(* Strings.  The reason texts of the source are Japanese sentences; the    *)
(* model names each by an ASCII token (see InputReasons, PolicyReasons,    *)
(* SoftFlags).                                                             *)
(***************************************************************************)
EXTENDS Integers, Sequences, FiniteSets, TLC

VARIABLES
    phase,   \* "idle" | "handling": whether a request is being handled
    req,     \* the request being handled, as it arrived
    resp,    \* the latest request's body and the response to it
    hist,    \* an earlier body and response, kept by the observer for comparison
    clock,   \* Date.now()
    amort,   \* the latest evaluation of the two amortization functions
    pick,    \* the latest evaluation of pickBottleneck
    gen,     \* the request in progress in the third revision of the route (with the LLM call)
    pts,     \* the latest LLM reply text and the points parsed from it
    home,    \* the Home page (src/app/page.tsx): its React state, its last render, its request
    calc     \* the latest evaluation of the page's calcDerivedMetrics beside the server's metrics

\* req, resp, hist, amort, pick, gen, pts and calc hold <<>> (nothing) or <<v>> (the value v);
\* home holds <<>> where the page is not part of the specification
vars == <<phase, req, resp, hist, clock, amort, pick, gen, pts, home, calc>>

----------------------------------------------------------------------------
(* Fixed-point arithmetic *)

Unit == 10^5
PowScale == 10^8
MaxInt == 2 * (2^30 - 1) + 1

Abs(x) == IF x < 0 THEN -x ELSE x
Max(a, b) == IF a >= b THEN a ELSE b
Min(a, b) == IF a <= b THEN a ELSE b

\* floor(a*b/c) for 0 <= a < c, b >= 0 and 3c <= MaxInt: long multiplication
\* over the bits of b from bit k down, q the quotient and r the remainder of
\* the bits taken so far.  (The tests q < 0 and r < 0 never hold; they make
\* TLC evaluate q and r at each step instead of at the end.)
RECURSIVE MulDivBits(_, _, _, _, _, _)
MulDivBits(a, b, c, k, q, r) ==
    IF k < 0 \/ q < 0 \/ r < 0 THEN q
    ELSE MulDivBits(a, b, c, k - 1,
                    2 * q + ((2 * r + ((b \div 2^k) % 2) * a) \div c),
                    (2 * r + ((b \div 2^k) % 2) * a) % c)

\* floor(a*b/c) for a, b >= 0 and c > 0, without forming a*b when it does not fit
MulDivNat(a, b, c) ==
    IF a = 0 \/ b <= MaxInt \div a
    THEN (a * b) \div c
    ELSE (a \div c) * b + MulDivBits(a % c, b, c, 30, 0, 0)

\* a*b/c cut toward zero, any signs (c # 0)
MulDiv(a, b, c) ==
    LET neg == ((a < 0) # (b < 0)) # (c < 0)
        m == MulDivNat(Abs(a), Abs(b), Abs(c))
    IN  IF neg THEN -m ELSE m

----------------------------------------------------------------------------
(* JSON values of a request body *)

JNum(n) == [t |-> "number", n |-> n, s |-> ""]      \* the number n (whole man-yen, years)
JStr(s) == [t |-> "string", n |-> 0, s |-> s]       \* a string
JUndef == [t |-> "undefined", n |-> 0, s |-> ""]    \* the field is absent
JNull == [t |-> "null", n |-> 0, s |-> ""]          \* null
JHuge == [t |-> "number", n |-> 0, s |-> "Infinity"]  \* a number token beyond the doubles (1e999)
JMilli(n) == [t |-> "number", n |-> n, s |-> "e-3"]  \* the number n/1000 (333.3 is JMilli(333300))
JNaN == [t |-> "number", n |-> 0, s |-> "NaN"]       \* NaN (a JavaScript value; JSON has none)

----------------------------------------------------------------------------
(* POLICY: the percentages and the multiple are whole numbers; the annual  *)
(* rate 1.5 % is held in basis points (1/100 %), annualRatePct * 100.      *)

POLICY_tightening ==
    [dtiMaxPct |-> 35 - clock,
     downPaymentMinPct |-> 10,
     annualRateBp |-> 150,
     years |-> 35,
     ltiMax |-> 7,
     otherDebtMonthlyPct |-> 2]

POLICY ==
    [dtiMaxPct |-> 35,
     downPaymentMinPct |-> 10,
     annualRateBp |-> 150,
     years |-> 35,
     ltiMax |-> 7,
     otherDebtMonthlyPct |-> 2]

\* annualRatePct / 100 / 12 = bp / RateDen
RateDen == 100 * 100 * 12

----------------------------------------------------------------------------
(* Helpers of the route *)

\* The strings of the model that spell a number, with the number they spell
NumericStrings ==
    ("0" :> 0) @@ ("-100" :> -100) @@ ("600" :> 600) @@ ("2000" :> 2000) @@ ("3000" :> 3000)

\* Number(v): a number is itself, null is 0, an empty or blank string is 0, a
\* string that spells a number is that number; undefined and any other string
\* are NaN.  finite is Number.isFinite of the result, and the value is n / d.
Number(x) ==
    CASE x.t = "number" ->
            [finite |-> x.s \notin {"Infinity", "NaN"}, n |-> x.n,
             d |-> IF x.s = "e-3" THEN 1000 ELSE 1]
      [] x.t = "null" -> [finite |-> TRUE, n |-> 0, d |-> 1]
      [] x.t = "string" /\ x.s \in {"", " "} -> [finite |-> TRUE, n |-> 0, d |-> 1]
      [] x.t = "string" /\ x.s \in DOMAIN NumericStrings ->
            [finite |-> TRUE, n |-> NumericStrings[x.s], d |-> 1]
      [] OTHER -> [finite |-> FALSE, n |-> 0, d |-> 1]

\* A finite Number(v) in units of 1/Unit
NumberUnits(x) == MulDiv(Number(x).n, Unit, Number(x).d)

fin_nonFiniteAsOne(x) == IF Number(x).finite THEN NumberUnits(x) ELSE Unit

\* fin(n): Number(n) if finite, else 0
fin(x) == IF Number(x).finite THEN NumberUnits(x) ELSE 0

round1_halfAway(n) ==
    IF n < 0 THEN -(((-n + Unit \div 20) \div (Unit \div 10)) * (Unit \div 10))
    ELSE ((n + Unit \div 20) \div (Unit \div 10)) * (Unit \div 10)

\* round1(n) = Math.round(n * 10) / 10; Math.round(x) is floor(x + 0.5)
round1(n) == ((n + Unit \div 20) \div (Unit \div 10)) * (Unit \div 10)

\* Math.pow(1 + r, n) at PowScale, r = bp / RateDen, by repeated squaring
RECURSIVE PowFix(_, _)
PowFix(base, n) ==
    IF n = 0 THEN PowScale
    ELSE LET h == PowFix(base, n \div 2)
         IN  IF n % 2 = 1
             THEN MulDiv(MulDiv(h, h, PowScale), base, PowScale)
             ELSE MulDiv(h, h, PowScale)

Pow1r(bp, n) == PowFix(PowScale + MulDiv(PowScale, bp, RateDen), n)

\* The years parameter of the two amortization functions is held in 1/YearDen
\* of a year, so that a term need not be a whole number of months
YearDen == 100

Months_noTimes12(years) == Max(1, (2 * years + YearDen) \div (2 * YearDen))

\* n = Math.max(1, Math.round(years * 12)); Math.round(x) is floor(x + 0.5)
Months(years) == Max(1, (2 * 12 * years + YearDen) \div (2 * YearDen))

amortPaymentMan_noMinusOne(principalMan, annualRateBp, years) ==
    LET P == principalMan
        n == Months(years)
        pow == Pow1r(annualRateBp, n)
        rpow == MulDiv(pow, annualRateBp, RateDen)
    IN  IF P <= 0 THEN 0
        ELSE IF annualRateBp = 0 THEN P \div n
        ELSE MulDiv(P, rpow, pow)

\* amortPaymentMan: monthly payment of a fixed-rate loan
amortPaymentMan(principalMan, annualRateBp, years) ==
    LET P == principalMan
        n == Months(years)
        pow == Pow1r(annualRateBp, n)
        rpow == MulDiv(pow, annualRateBp, RateDen)        \* r * pow
    IN  IF P <= 0 THEN 0
        ELSE IF annualRateBp = 0 THEN P \div n
        ELSE MulDiv(P, rpow, pow - PowScale)              \* (P * r * pow) / (pow - 1)

\* principalFromPaymentMan: the principal a monthly payment repays
principalFromPaymentMan(paymentMan, annualRateBp, years) ==
    LET pay == paymentMan
        n == Months(years)
        pow == Pow1r(annualRateBp, n)
        rpow == MulDiv(pow, annualRateBp, RateDen)        \* r * pow
    IN  IF pay <= 0 THEN 0
        ELSE IF annualRateBp = 0 THEN pay * n
        ELSE MulDiv(pay, pow - PowScale, rpow)            \* pay * ((pow - 1) / (r * pow))

\* pickBottleneck: the violated constraint with the largest gap.  The
\* candidates with a gap > 0 are sorted by decreasing gap with a stable sort
\* (Array.prototype.sort), and the first one is returned; "none" is null.
RECURSIVE InsertDesc_unstable(_, _)
InsertDesc_unstable(sorted, x) ==
    IF sorted = <<>> THEN <<x>>
    ELSE IF Head(sorted).v > x.v THEN <<Head(sorted)>> \o InsertDesc_unstable(Tail(sorted), x)
    ELSE <<x>> \o sorted

RECURSIVE InsertDesc(_, _)
InsertDesc(sorted, x) ==
    IF sorted = <<>> THEN <<x>>
    ELSE IF Head(sorted).v >= x.v THEN <<Head(sorted)>> \o InsertDesc(Tail(sorted), x)
    ELSE <<x>> \o sorted

RECURSIVE SortDesc(_)
SortDesc(xs) ==
    IF xs = <<>> THEN <<>>
    ELSE InsertDesc(SortDesc(SubSeq(xs, 1, Len(xs) - 1)), xs[Len(xs)])

IsBad_nonStrict(x) == x.v >= 0

IsBad(x) == x.v > 0

pickBottleneck(dtiPct, downPct, lti) ==
    LET dtiGap == dtiPct - POLICY.dtiMaxPct * Unit
        downGap == POLICY.downPaymentMinPct * Unit - downPct
        ltiGap == lti - POLICY.ltiMax * Unit
        candidates == <<[k |-> "DTI", v |-> dtiGap],
                        [k |-> "DOWN", v |-> downGap],
                        [k |-> "LTI", v |-> ltiGap]>>
        bads == SelectSeq(candidates, IsBad)
    IN  IF Len(bads) = 0 THEN "none" ELSE SortDesc(bads)[1].k

\* buildPlans: Plan A by bottleneck, Plan B, Plan C.  A step is its text (a
\* token) and the amount printed in it, fmt(n) = r1(Math.max(0, n)) man-yen
\* (0 for a step without an amount).
fmt(n) == round1(Max(0, n))

Step(text, amount) == [text |-> text, amount |-> amount]

PlanA(params) ==
    LET bottleneck == params.bottleneck
        required == params.required
        reduceLoanForLTI == params.loanMan - POLICY.ltiMax * params.incomeMan
    IN  IF bottleneck = "DOWN" THEN
            [title |-> "Plan A (fastest)", impact |-> "reach the minimum down payment",
             steps |-> <<Step("assets +", fmt(required.increaseAssetsManForDownPayment)),
                         Step("(alt) loan -", fmt(required.reduceLoanManForDTI))>>]
        ELSE IF bottleneck = "DTI" THEN
            [title |-> "Plan A (fastest)", impact |-> "bring DTI back under the limit",
             steps |-> <<Step("loan -", fmt(required.reduceLoanManForDTI)),
                         Step("(alt) other debt -", fmt(required.reduceOtherDebtMan))>>]
        ELSE IF bottleneck = "LTI" THEN
            [title |-> "Plan A (fastest)", impact |-> "bring LTI back under the guide",
             steps |-> <<Step("loan -", fmt(reduceLoanForLTI)),
                         Step("(alt) income +",
                              fmt(MulDiv(params.loanMan, 1, POLICY.ltiMax) - params.incomeMan))>>]
        ELSE
            [title |-> "Plan A (build margin)", impact |-> "build margin for future changes",
             steps |-> <<Step("add to the down payment", 0),
                         Step("compress other debt", 0)>>]

PlanB(params) ==
    LET required == params.required
    IN  [title |-> "Plan B (realistic)", impact |-> "improve several items a little",
         steps |-> <<IF required.reduceLoanManForDTI > 0
                        THEN Step("loan -", fmt(MulDiv(required.reduceLoanManForDTI, 6, 10)))
                        ELSE Step("fine-tune the loan", 0),
                     IF required.increaseAssetsManForDownPayment > 0
                        THEN Step("assets +",
                                  fmt(MulDiv(required.increaseAssetsManForDownPayment, 6, 10)))
                        ELSE Step("add to the assets", 0),
                     IF required.reduceOtherDebtMan > 0
                        THEN Step("other debt -", fmt(MulDiv(required.reduceOtherDebtMan, 6, 10)))
                        ELSE Step("review the other debt", 0)>>]

PlanC ==
    [title |-> "Plan C (conservative)", impact |-> "secure a safety margin on the conditions",
     steps |-> <<Step("recompute with the rate 0.5-1.0 % higher", 0),
                 Step("review the term and the price range", 0),
                 Step("refine with tenure and savings history", 0)>>]

buildPlans(params) == <<PlanA(params), PlanB(params), PlanC>>

----------------------------------------------------------------------------
(* POST, step by step *)

\* E: the normalised input (lines 189-199)
InputOf(body) ==
    [age |-> body.age,
     job |-> body.job,
     family |-> body.family,
     incomeMan |-> fin(body.incomeMan),
     assetsMan |-> fin(body.assetsMan),
     otherDebtMan |-> fin(body.otherDebtMan),
     loanRequestMan |-> fin(body.loanRequestMan)]

\* The input-validity gate (lines 205-209).  Tokens, in the source's order:
\*   INCOME_INVALID   "nenshu ga minyuryoku/0 ..."     (income missing or 0)
\*   LOAN_INVALID     "moshikomi kingaku ga minyuryoku/0 ..." (loan missing or 0)
\*   ASSETS_NEGATIVE  "jiko shikin ga fu no atai"      (assets negative)
\*   DEBT_NEGATIVE    "ta saimu ga fu no atai"         (other debt negative)
InputReasons(E) ==
    (IF E.incomeMan <= 0 THEN <<"INCOME_INVALID">> ELSE <<>>)
    \o (IF E.loanRequestMan <= 0 THEN <<"LOAN_INVALID">> ELSE <<>>)
    \o (IF E.assetsMan < 0 THEN <<"ASSETS_NEGATIVE">> ELSE <<>>)
    \o (IF E.otherDebtMan < 0 THEN <<"DEBT_NEGATIVE">> ELSE <<>>)

\* Metrics (lines 211-224)
MonthlyIncomeMan(E) == IF E.incomeMan > 0 THEN E.incomeMan \div 12 ELSE 0

EstOtherDebtPayMan(E) ==
    IF E.otherDebtMan > 0 THEN MulDiv(E.otherDebtMan, POLICY.otherDebtMonthlyPct, 100) ELSE 0

EstMortgagePayMan(E) ==
    amortPaymentMan(E.loanRequestMan, POLICY.annualRateBp, POLICY.years * YearDen)

DtiPct(monthlyIncomeMan, estMortgagePayMan, estOtherDebtPayMan) ==
    IF monthlyIncomeMan > 0
    THEN MulDiv(estMortgagePayMan + estOtherDebtPayMan, 100 * Unit, monthlyIncomeMan)
    ELSE 0

DownPaymentPct_nonZeroGuard(E) ==
    IF E.loanRequestMan + E.assetsMan # 0
    THEN MulDiv(E.assetsMan, 100 * Unit, E.loanRequestMan + E.assetsMan)
    ELSE 0

DownPaymentPct_overLoan(E) ==
    IF E.loanRequestMan > 0 THEN MulDiv(E.assetsMan, 100 * Unit, E.loanRequestMan) ELSE 0

DownPaymentPct_loanShare(E) ==
    IF E.loanRequestMan + E.assetsMan > 0
    THEN MulDiv(E.loanRequestMan, 100 * Unit, E.loanRequestMan + E.assetsMan)
    ELSE 0

DownPaymentPct(E) ==
    IF E.loanRequestMan + E.assetsMan > 0
    THEN MulDiv(E.assetsMan, 100 * Unit, E.loanRequestMan + E.assetsMan)
    ELSE 0

Lti(E) == IF E.incomeMan > 0 THEN MulDiv(E.loanRequestMan, Unit, E.incomeMan) ELSE 0

PolicyReasons_nonStrict(dtiPct, downPaymentPct, lti) ==
    (IF dtiPct >= POLICY.dtiMaxPct * Unit THEN <<"DTI_OVER">> ELSE <<>>)
    \o (IF downPaymentPct <= POLICY.downPaymentMinPct * Unit THEN <<"DOWN_UNDER">> ELSE <<>>)
    \o (IF lti >= POLICY.ltiMax * Unit THEN <<"LTI_OVER">> ELSE <<>>)

\* The ratio checks of the Policy Gate (lines 228-231).  Tokens:
\*   DTI_OVER    "DTI ga jogen(35%) wo choka"
\*   DOWN_UNDER  "atamakin hiritsu ga saitei(10%) wo shitamawaru"
\*   LTI_OVER    "LTI ga meyasu jogen(7 bai) wo choka"
PolicyReasons(dtiPct, downPaymentPct, lti) ==
    (IF dtiPct > POLICY.dtiMaxPct * Unit THEN <<"DTI_OVER">> ELSE <<>>)
    \o (IF downPaymentPct < POLICY.downPaymentMinPct * Unit THEN <<"DOWN_UNDER">> ELSE <<>>)
    \o (IF lti > POLICY.ltiMax * Unit THEN <<"LTI_OVER">> ELSE <<>>)

\* Soft flags (lines 234-243).  Tokens: AGE_AT_PAYOFF, JOB_STABILITY,
\* FAMILY_COST.  UnstableJobs stands for the three employment categories of
\* line 238 and HasChild for family.includes(the character "child").
UnstableJobs == {"self-employed", "contract/temp", "part-time"}
HasChild(s) == s \in {"couple+child", "single+child"}

SoftFlags(E) ==
    (IF E.age.t = "number"
           /\ (E.age.s = "Infinity"
                \/ (NumberUnits(E.age) > 0 /\ NumberUnits(E.age) + POLICY.years * Unit > 80 * Unit))
        THEN <<"AGE_AT_PAYOFF">> ELSE <<>>)
    \o (IF E.job.t = "string" /\ E.job.s # "" /\ E.job.s \in UnstableJobs
        THEN <<"JOB_STABILITY">> ELSE <<>>)
    \o (IF E.family.t = "string" /\ E.family.s # "" /\ HasChild(E.family.s)
        THEN <<"FAMILY_COST">> ELSE <<>>)

GateReasons_withSoftFlags(E, dtiPct, downPaymentPct, lti) ==
    (IF Len(InputReasons(E)) = 0
        THEN PolicyReasons(dtiPct, downPaymentPct, lti)
        ELSE InputReasons(E))
    \o SoftFlags(E)

GateReasons_alwaysRatios(E, dtiPct, downPaymentPct, lti) ==
    InputReasons(E) \o PolicyReasons(dtiPct, downPaymentPct, lti)

\* gateReasons after line 232: the ratio checks run only if no input reason fired
GateReasons(E, dtiPct, downPaymentPct, lti) ==
    LET input == InputReasons(E)
    IN  IF Len(input) = 0
        THEN input \o PolicyReasons(dtiPct, downPaymentPct, lti)
        ELSE input

Decision_offByOne(gateReasons) == IF Len(gateReasons) > 1 THEN "HOLD" ELSE "PASS"

\* decision (line 245)
Decision(gateReasons) == IF Len(gateReasons) > 0 THEN "HOLD" ELSE "PASS"

Required_unclamped(E, monthlyIncomeMan, estOtherDebtPayMan) ==
    LET maxPayMan == MulDiv(monthlyIncomeMan, POLICY.dtiMaxPct, 100)
        allowMortgagePay == maxPayMan - estOtherDebtPayMan
        needReducePay == estOtherDebtPayMan - maxPayMan
        principalAllowed ==
            principalFromPaymentMan(allowMortgagePay, POLICY.annualRateBp,
                                    POLICY.years * YearDen)
        requiredAssets ==
            MulDiv(E.loanRequestMan, POLICY.downPaymentMinPct, 100 - POLICY.downPaymentMinPct)
        active == E.incomeMan > 0 /\ E.loanRequestMan > 0
    IN  [reduceLoanManForDTI |->
            round1(IF active /\ allowMortgagePay > 0
                   THEN E.loanRequestMan - principalAllowed ELSE 0),
         increaseAssetsManForDownPayment |->
            round1(IF active THEN requiredAssets - E.assetsMan ELSE 0),
         reduceOtherDebtMan |->
            round1(IF active /\ allowMortgagePay <= 0
                   THEN MulDiv(needReducePay, 100, POLICY.otherDebtMonthlyPct) ELSE 0)]

Required_signSlip(E, monthlyIncomeMan, estOtherDebtPayMan) ==
    LET maxPayMan == MulDiv(monthlyIncomeMan, POLICY.dtiMaxPct, 100)
        allowMortgagePay == maxPayMan - estOtherDebtPayMan
        needReducePay == estOtherDebtPayMan + maxPayMan
        reduce == E.loanRequestMan
                  - principalFromPaymentMan(allowMortgagePay, POLICY.annualRateBp,
                                            POLICY.years * YearDen)
        inc == MulDiv(E.loanRequestMan, POLICY.downPaymentMinPct, 100 - POLICY.downPaymentMinPct)
               - E.assetsMan
        active == E.incomeMan > 0 /\ E.loanRequestMan > 0
    IN  [reduceLoanManForDTI |->
            round1(IF active /\ allowMortgagePay > 0 /\ reduce > 0 THEN reduce ELSE 0),
         increaseAssetsManForDownPayment |-> round1(IF active /\ inc > 0 THEN inc ELSE 0),
         reduceOtherDebtMan |->
            round1(IF active /\ allowMortgagePay <= 0 /\ needReducePay > 0
                   THEN MulDiv(needReducePay, 100, POLICY.otherDebtMonthlyPct) ELSE 0)]

Required_noBranch(E, monthlyIncomeMan, estOtherDebtPayMan) ==
    LET maxPayMan == MulDiv(monthlyIncomeMan, POLICY.dtiMaxPct, 100)
        allowMortgagePay == maxPayMan - estOtherDebtPayMan
        needReducePay == estOtherDebtPayMan - maxPayMan
        reduce == E.loanRequestMan
                  - principalFromPaymentMan(allowMortgagePay, POLICY.annualRateBp,
                                            POLICY.years * YearDen)
        inc == MulDiv(E.loanRequestMan, POLICY.downPaymentMinPct, 100 - POLICY.downPaymentMinPct)
               - E.assetsMan
        active == E.incomeMan > 0 /\ E.loanRequestMan > 0
    IN  [reduceLoanManForDTI |-> round1(IF active /\ reduce > 0 THEN reduce ELSE 0),
         increaseAssetsManForDownPayment |-> round1(IF active /\ inc > 0 THEN inc ELSE 0),
         reduceOtherDebtMan |->
            round1(IF active /\ needReducePay > 0
                   THEN MulDiv(needReducePay, 100, POLICY.otherDebtMonthlyPct) ELSE 0)]

\* required (lines 247-282)
Required(E, monthlyIncomeMan, estOtherDebtPayMan) ==
    LET maxPayMan == MulDiv(monthlyIncomeMan, POLICY.dtiMaxPct, 100)
        allowMortgagePay == maxPayMan - estOtherDebtPayMan
        needReducePay == estOtherDebtPayMan - maxPayMan
        principalAllowed ==
            principalFromPaymentMan(allowMortgagePay, POLICY.annualRateBp,
                                    POLICY.years * YearDen)
        reduce == E.loanRequestMan - principalAllowed
        requiredAssets ==
            MulDiv(E.loanRequestMan, POLICY.downPaymentMinPct, 100 - POLICY.downPaymentMinPct)
        inc == requiredAssets - E.assetsMan
        active == E.incomeMan > 0 /\ E.loanRequestMan > 0
        reduceLoanManForDTI ==
            IF active /\ allowMortgagePay > 0 /\ reduce > 0 THEN reduce ELSE 0
        increaseAssetsManForDownPayment ==
            IF active /\ inc > 0 THEN inc ELSE 0
        reduceOtherDebtMan ==
            IF active /\ allowMortgagePay <= 0 /\ needReducePay > 0
            THEN MulDiv(needReducePay, 100, POLICY.otherDebtMonthlyPct)
            ELSE 0
    IN  [reduceLoanManForDTI |-> round1(Max(0, reduceLoanManForDTI)),
         increaseAssetsManForDownPayment |-> round1(Max(0, increaseAssetsManForDownPayment)),
         reduceOtherDebtMan |-> round1(Max(0, reduceOtherDebtMan))]

Headroom_downReversed(dtiPct, downPaymentPct, lti) ==
    [dtiPct |-> round1(POLICY.dtiMaxPct * Unit - dtiPct),
     downPaymentPct |-> round1(POLICY.downPaymentMinPct * Unit - downPaymentPct),
     lti |-> round1(POLICY.ltiMax * Unit - lti)]

\* headroom (lines 284-289)
Headroom(dtiPct, downPaymentPct, lti) ==
    [dtiPct |-> round1(POLICY.dtiMaxPct * Unit - dtiPct),
     downPaymentPct |-> round1(downPaymentPct - POLICY.downPaymentMinPct * Unit),
     lti |-> round1(POLICY.ltiMax * Unit - lti)]

\* metrics as reported (lines 338-346)
Metrics(E, monthlyIncomeMan, estMortgagePayMan, estOtherDebtPayMan, dtiPct, downPaymentPct, lti) ==
    [monthlyIncomeMan |-> round1(monthlyIncomeMan),
     principalMan |-> round1(E.loanRequestMan),
     estMortgagePayMan |-> round1(estMortgagePayMan),
     estOtherDebtPayMan |-> round1(estOtherDebtPayMan),
     dtiPct |-> round1(dtiPct),
     downPaymentPct |-> round1(downPaymentPct),
     lti |-> round1(lti)]

\* The response of POST (lines 185-388): the fields of Lambda, the soft flags
\* and the input of Trace.log, and the envelope metadata.  raw holds the three
\* ratios before rounding; they are not part of the JSON and are kept for the
\* properties that speak of them.
PostResponse(body, now) ==
    LET E == InputOf(body)
        monthlyIncomeMan == MonthlyIncomeMan(E)
        estOtherDebtPayMan == EstOtherDebtPayMan(E)
        estMortgagePayMan == EstMortgagePayMan(E)
        dtiPct == DtiPct(monthlyIncomeMan, estMortgagePayMan, estOtherDebtPayMan)
        downPaymentPct == DownPaymentPct(E)
        lti == Lti(E)
        gateReasons == GateReasons(E, dtiPct, downPaymentPct, lti)
        softFlags == SoftFlags(E)
        required == Required(E, monthlyIncomeMan, estOtherDebtPayMan)
        bottleneck == pickBottleneck(dtiPct, downPaymentPct, lti)
    IN  [E |-> E,
         result |-> Decision(gateReasons),
         gateReasons |-> gateReasons,
         softFlags |-> softFlags,
         flags |-> gateReasons \o softFlags,
         bottleneck |-> bottleneck,
         headroom |-> Headroom(dtiPct, downPaymentPct, lti),
         plans |-> buildPlans([incomeMan |-> E.incomeMan, loanMan |-> E.loanRequestMan,
                               assetsMan |-> E.assetsMan, otherDebtMan |-> E.otherDebtMan,
                               bottleneck |-> bottleneck, required |-> required]),
         required |-> required,
         metrics |-> Metrics(E, monthlyIncomeMan, estMortgagePayMan, estOtherDebtPayMan,
                             dtiPct, downPaymentPct, lti),
         raw |-> [dtiPct |-> dtiPct, downPaymentPct |-> downPaymentPct, lti |-> lti],
         traceId |-> now,
         generatedAt |-> now,
         status |-> 200]

\* The body of `{}`
EmptyBody ==
    [age |-> JUndef, job |-> JUndef, family |-> JUndef,
     incomeMan |-> JUndef, assetsMan |-> JUndef, otherDebtMan |-> JUndef,
     loanRequestMan |-> JUndef]

\* req.json() on what arrived (w.ok: the text is JSON, of the object w.body):
\* resolves with the object or rejects
ReqJson(w) ==
    IF w.ok THEN [threw |-> FALSE, body |-> w.body] ELSE [threw |-> TRUE, body |-> EmptyBody]

ParsedBody_noCatch(w) == ReqJson(w)

\* await req.json().catch(() => ({})) (line 186)
ParsedBody(w) ==
    IF ReqJson(w).threw THEN [threw |-> FALSE, body |-> EmptyBody] ELSE ReqJson(w)

\* POST on what arrived: the response of lines 315-387, or the framework's
\* 500 if the handler throws
POST(w, now) ==
    IF ParsedBody(w).threw THEN [status |-> 500] ELSE PostResponse(ParsedBody(w).body, now)

----------------------------------------------------------------------------
(* Inputs *)

MaxClock == 1

SoftNone == [age |-> JUndef, job |-> JUndef, family |-> JUndef]
SoftAll == [age |-> JNum(50), job |-> JStr("self-employed"), family |-> JStr("couple+child")]

Body(income, loan, assets, debt, soft) ==
    [age |-> soft.age, job |-> soft.job, family |-> soft.family,
     incomeMan |-> income, assetsMan |-> assets, otherDebtMan |-> debt,
     loanRequestMan |-> loan]

IncomeVals == {JUndef, JNum(-100), JNum(0), JNum(100), JNum(600)}
LoanVals == {JUndef, JNum(-100), JNum(700), JNum(701), JNum(900), JNum(3000), JNum(4500)}
AssetVals == {JUndef, JNum(-100), JNum(100), JNum(300), JNum(1000)}
DebtVals == {JUndef, JNum(-100), JNum(100), JNum(1000)}
SoftVals == {SoftNone, SoftAll}

Bodies ==
    {Body(i, l, a, d, s) : i \in IncomeVals, l \in LoanVals, a \in AssetVals,
                           d \in DebtVals, s \in SoftVals}

\* The bodies of the two-request comparisons: monetary fields >= 0
PairBodies ==
    {Body(i, l, a, d, s) : i \in {JNum(0), JNum(600)}, l \in {JNum(0), JNum(3000), JNum(4500)},
                           a \in {JNum(0), JNum(400)}, d \in {JNum(0)},
                           s \in {SoftNone, SoftAll}}

\* Sparse and ill-typed bodies: each monetary field absent, null, a string
\* that spells no number, a string that spells one, a non-finite number, or
\* a number
SparseVals == {JUndef, JNull, JStr("abc"), JStr("600"), JHuge, JNum(600)}

SparseBodies ==
    {Body(i, l, a, d, SoftNone) : i \in SparseVals, l \in SparseVals, a \in SparseVals,
                                  d \in SparseVals}

\* Bodies at and near the thresholds and the rounding steps: LTI 6.75, 7.01
\* and 7.25, other-debt payments that take the whole DTI budget (875 of debt
\* on an income of 600) or all but 0.00004 of it, and amounts below 0.1
EdgeBodies ==
    {Body(i, l, a, d, SoftNone) :
        i \in {JNum(100), JNum(600)},
        l \in {JNum(-100), JMilli(70), JNum(675), JNum(701), JNum(725), JNum(3000)},
        a \in {JNum(100), JNum(300), JNum(1000)},
        d \in {JUndef, JNum(-100), JMilli(70), JNum(875), JMilli(874998)}}

AmortPrincipals == {1, 100, 900, 3000, 5000}
\* Annual rates in basis points whose monthly rate is exact at PowScale
AmortRates == {0, 60, 150, 300}
\* Terms in 1/YearDen of a year: 0.04, 0.1, 0.5, 1, 5, 10, 35 and 50 years
AmortYears == {4, 10, 50, 100, 500, 1000, 3500, 5000}

----------------------------------------------------------------------------
(* The state machine *)

Init ==
    /\ phase = "idle"
    /\ req = <<>>
    /\ resp = <<>>
    /\ hist = <<>>
    /\ clock = 0
    /\ amort = <<>>
    /\ pick = <<>>
    /\ gen = <<>>
    /\ pts = <<>>
    /\ home = <<>>
    /\ calc = <<>>

\* A request with body b reaches the handler
Receive(b) ==
    /\ phase = "idle"
    /\ phase' = "handling"
    /\ req' = <<[ok |-> TRUE, body |-> b]>>
    /\ resp' = <<>>
    /\ UNCHANGED <<hist, clock, amort, pick, gen, pts, home, calc>>

\* A request whose text is not JSON reaches the handler
ReceiveMalformed ==
    /\ phase = "idle"
    /\ phase' = "handling"
    /\ req' = <<[ok |-> FALSE, body |-> EmptyBody]>>
    /\ resp' = <<>>
    /\ UNCHANGED <<hist, clock, amort, pick, gen, pts, home, calc>>

\* POST runs to its return
Respond ==
    /\ phase = "handling"
    /\ phase' = "idle"
    /\ resp' = <<[body |-> ParsedBody(req[1]).body, malformed |-> ~req[1].ok,
                  out |-> POST(req[1], clock)]>>
    /\ req' = <<>>
    /\ UNCHANGED <<hist, clock, amort, pick, gen, pts, home, calc>>

\* The observer keeps the latest response to compare a later one with it
Observe ==
    /\ phase = "idle"
    /\ resp # <<>>
    /\ hist' = resp
    /\ UNCHANGED <<phase, req, resp, clock, amort, pick, gen, pts, home, calc>>

\* Time passes
Tick ==
    /\ clock < MaxClock
    /\ clock' = clock + 1
    /\ UNCHANGED <<phase, req, resp, hist, amort, pick, gen, pts, home, calc>>

\* amortPaymentMan on the drawn input
Pay ==
    /\ amort # <<>>
    /\ amort[1].stage = "input"
    /\ amort' = <<[amort[1] EXCEPT
                    !.stage = "paid",
                    !.paymentMan = amortPaymentMan(amort[1].principalMan,
                                                   amort[1].annualRateBp, amort[1].years)]>>
    /\ UNCHANGED <<phase, req, resp, hist, clock, pick, gen, pts, home, calc>>

\* principalFromPaymentMan on the payment just computed
Invert ==
    /\ amort # <<>>
    /\ amort[1].stage = "paid"
    /\ amort' = <<[amort[1] EXCEPT
                    !.stage = "inverted",
                    !.back = principalFromPaymentMan(amort[1].paymentMan,
                                                     amort[1].annualRateBp, amort[1].years)]>>
    /\ UNCHANGED <<phase, req, resp, hist, clock, pick, gen, pts, home, calc>>

\* Single requests over the full input set
Next ==
    \/ \E b \in Bodies : Receive(b)
    \/ Respond

Spec == Init /\ [][Next]_vars

\* Sequences of requests, with an earlier response kept for comparison
NextPair ==
    \/ \E b \in PairBodies : Receive(b)
    \/ Respond
    \/ Observe
    \/ Tick

SpecPair == Init /\ [][NextPair]_vars

\* The boundary of the handler: sparse, ill-typed and malformed requests
NextBoundary ==
    \/ \E b \in SparseBodies : Receive(b)
    \/ ReceiveMalformed
    \/ Respond

SpecBoundary == Init /\ [][NextBoundary]_vars

\* The body of a request that repeats the one answered by r with the reported
\* increaseAssetsManForDownPayment added to assetsMan (the sum has at most
\* three decimals)
WithAssetsIncreased(r) ==
    [r.body EXCEPT
        !.assetsMan = JMilli((r.out.E.assetsMan + r.out.required.increaseAssetsManForDownPayment)
                             \div (Unit \div 1000))]

\* An application arrives while the observer follows no earlier one
Apply(b) ==
    /\ hist = <<>>
    /\ Receive(b)

\* The applicant follows the advice of the latest response and applies again;
\* the observer keeps the response that gave the advice
Resubmit ==
    /\ phase = "idle"
    /\ resp # <<>>
    /\ hist = <<>>
    /\ resp[1].out.E.assetsMan >= 0
    /\ phase' = "handling"
    /\ hist' = resp
    /\ req' = <<[ok |-> TRUE, body |-> WithAssetsIncreased(resp[1])]>>
    /\ resp' = <<>>
    /\ UNCHANGED <<clock, amort, pick, gen, pts, home, calc>>

\* Requests at the thresholds, and applications repeated with the advised assets
NextEdge ==
    \/ \E b \in EdgeBodies : Apply(b)
    \/ Respond
    \/ Resubmit

SpecEdge == Init /\ [][NextEdge]_vars

\* The amortization functions on their own: the input is drawn at the start
InitAmort ==
    /\ phase = "idle"
    /\ req = <<>>
    /\ resp = <<>>
    /\ hist = <<>>
    /\ clock = 0
    /\ pick = <<>>
    /\ gen = <<>>
    /\ pts = <<>>
    /\ home = <<>>
    /\ calc = <<>>
    /\ \E P \in AmortPrincipals, bp \in AmortRates, years \in AmortYears :
          amort = <<[principalMan |-> P * Unit, annualRateBp |-> bp, years |-> years,
                     stage |-> "input", paymentMan |-> 0, back |-> 0]>>

NextAmort == Pay \/ Invert

SpecAmort == InitAmort /\ [][NextAmort]_vars

\* pickBottleneck on its own: the three ratios are drawn at the start, in
\* whole percents and multiples around the thresholds
PickDtiPcts == {30, 35, 36, 37, 38}
PickDownPcts == {12, 10, 9, 8, 7}
PickLtis == {6, 7, 8, 9, 10}

InitPick ==
    /\ phase = "idle"
    /\ req = <<>>
    /\ resp = <<>>
    /\ hist = <<>>
    /\ clock = 0
    /\ amort = <<>>
    /\ gen = <<>>
    /\ pts = <<>>
    /\ home = <<>>
    /\ calc = <<>>
    /\ \E d \in PickDtiPcts, w \in PickDownPcts, l \in PickLtis :
          pick = <<[stage |-> "input", dtiPct |-> d * Unit, downPct |-> w * Unit,
                    lti |-> l * Unit, bottleneck |-> "none"]>>

\* pickBottleneck on the drawn ratios
Pick ==
    /\ pick # <<>>
    /\ pick[1].stage = "input"
    /\ pick' = <<[pick[1] EXCEPT
                   !.stage = "picked",
                   !.bottleneck = pickBottleneck(pick[1].dtiPct, pick[1].downPct, pick[1].lti)]>>
    /\ UNCHANGED <<phase, req, resp, hist, clock, amort, gen, pts, home, calc>>

NextPick == Pick

SpecPick == InitPick /\ [][NextPick]_vars

----------------------------------------------------------------------------
(* The third revision of the route (lines 591-937): one policy per bank,   *)
(* and the discussion points V asked of an LLM.  A text that is parsed is  *)
(* the sequence of its characters; the other strings are tokens.           *)

\* otherDebtPayCoeff is held in 1/CoeffDen: 0.001 is 10
CoeffDen == 10^4

\* BANK_POLICIES, by the key of the bank ("BankA" for the first one)
BANK_POLICIES ==
    [BankA |-> [ruleId |-> "MORTGAGE_STD_001", dtiMaxPct |-> 35, downPaymentMinPct |-> 10,
                annualRateBp |-> 150, years |-> 35, ltiMax |-> 8, otherDebtPayCoeff |-> 10],
     BankB |-> [ruleId |-> "MORTGAGE_CONS_001", dtiMaxPct |-> 30, downPaymentMinPct |-> 15,
                annualRateBp |-> 180, years |-> 35, ltiMax |-> 7, otherDebtPayCoeff |-> 12],
     BankC |-> [ruleId |-> "MORTGAGE_GROW_001", dtiMaxPct |-> 40, downPaymentMinPct |-> 5,
                annualRateBp |-> 120, years |-> 40, ltiMax |-> 9, otherDebtPayCoeff |-> 9]]

\* clampNum(v, fallback)
clampNum(v, fallback) == IF Number(v).finite THEN NumberUnits(v) ELSE fallback

\* +x.toFixed(1): the nearest tenth, a tie away from zero
toFixed1(n) ==
    IF n >= 0 THEN ((n + Unit \div 20) \div (Unit \div 10)) * (Unit \div 10)
    ELSE -(((-n + Unit \div 20) \div (Unit \div 10)) * (Unit \div 10))

\* Math.round(x): floor(x + 0.5), in whole man-yen
MathRound(n) == ((n + Unit \div 2) \div Unit) * Unit

\* pmtMan: (P * r) / (1 - (1 + r)^-n)
pmtMan(principalMan, annualRateBp, years) ==
    LET P == principalMan
        n == years * 12
        denom == PowScale - MulDiv(PowScale, PowScale, Pow1r(annualRateBp, n))
    IN  IF P <= 0 THEN 0
        ELSE IF annualRateBp = 0 THEN P \div n
        ELSE MulDiv(MulDiv(P, annualRateBp, RateDen), PowScale, denom)

\* pvFromPmtMan: pmt * ((1 - (1 + r)^-n) / r)
pvFromPmtMan(pmtMonthlyMan, annualRateBp, years) ==
    LET n == years * 12
        denom == PowScale - MulDiv(PowScale, PowScale, Pow1r(annualRateBp, n))
    IN  IF pmtMonthlyMan <= 0 THEN 0
        ELSE IF annualRateBp = 0 THEN pmtMonthlyMan * n
        ELSE MulDiv(MulDiv(pmtMonthlyMan, denom, PowScale), RateDen, annualRateBp)

\* requiredExtraAssetsForDownPayment: (p * loan) / (1 - p) - assets, p = minPct / 100
requiredExtraAssetsForDownPayment(assetsMan, loanMan, minPct) ==
    IF minPct <= 0 THEN 0
    ELSE Max(0, MulDiv(loanMan, minPct, 100 - minPct) - assetsMan)

\* Characters
WhiteSpace == {" ", "\t", "\r", "\n"}
BulletChars == {"-", "*"}        \* "*" stands for the bullet U+2022

RECURSIVE DropLeading(_, _)
DropLeading(l, S) == IF l # <<>> /\ Head(l) \in S THEN DropLeading(Tail(l), S) ELSE l

RECURSIVE DropTrailing(_, _)
DropTrailing(l, S) ==
    IF l # <<>> /\ l[Len(l)] \in S THEN DropTrailing(SubSeq(l, 1, Len(l) - 1), S) ELSE l

\* s.trim()
Trim(l) == DropTrailing(DropLeading(l, WhiteSpace), WhiteSpace)

\* text.split("\n"): lines is the list of the lines closed so far, cur the
\* line being read
RECURSIVE SplitLines(_, _, _)
SplitLines(text, lines, cur) ==
    IF text = <<>> THEN Append(lines, cur)
    ELSE IF Head(text) = "\n" THEN SplitLines(Tail(text), Append(lines, cur), <<>>)
    ELSE SplitLines(Tail(text), lines, Append(cur, Head(text)))

Split(text) == SplitLines(text, <<>>, <<>>)

\* s.replace(/^[-•\s]+/, "").trim()
CleanLine(l) == Trim(DropLeading(l, BulletChars \cup WhiteSpace))

\* Boolean(s) of a string
NonEmpty(l) == l # <<>>

RECURSIVE MapClean(_)
MapClean(ls) == IF ls = <<>> THEN <<>> ELSE <<CleanLine(Head(ls))>> \o MapClean(Tail(ls))

\* slice(0, 8)
MaxPoints == 8

PointsOfReply_noSlice(text) == SelectSeq(MapClean(Split(text)), NonEmpty)

\* lines (758-762): split, strip the bullet, trim, drop the empty, keep 8
PointsOfReply(text) ==
    LET kept == SelectSeq(MapClean(Split(text)), NonEmpty)
    IN  SubSeq(kept, 1, Min(Len(kept), MaxPoints))

\* The four fallback sentences (708-713), each named by two characters
fallback == << <<"F", "1">>, <<"F", "2">>, <<"F", "3">>, <<"F", "4">> >>

\* What the environment holds for one call: the credential (apiKey), the
\* OPENAI_MODEL variable ("" if unset), and the provider's reply:
\*   kind "network"  fetch rejects
\*   kind "http"     a response of the given status; bodyJson: r.json()
\*                   resolves; hasContent: choices[0].message.content is
\*                   there, with the given text
VisionModel(env) == IF env.model = "" THEN "gpt-4o-mini" ELSE env.model

ResponseOk(status) == status >= 200 /\ status <= 299

generateVisionPoints_noCatch(input, env) ==
    IF ~env.apiKey
    THEN [threw |-> FALSE, points |-> fallback,
          meta |-> [model |-> "fallback", visionNote |-> "LLM_NOT_CONNECTED"]]
    ELSE IF env.kind = "network" \/ ~ResponseOk(env.status) \/ ~env.bodyJson
    THEN [threw |-> TRUE, points |-> <<>>,
          meta |-> [model |-> "fallback", visionNote |-> "LLM_ERROR"]]
    ELSE LET text == IF env.hasContent THEN env.text ELSE <<>>
             lines == PointsOfReply(text)
         IN  [threw |-> FALSE, points |-> IF Len(lines) > 0 THEN lines ELSE fallback,
              meta |-> [model |-> VisionModel(env), visionNote |-> "LLM_GENERATED"]]

\* generateVisionPoints (697-771).  threw: the call rejects (it never does).
generateVisionPoints(input, env) ==
    IF ~env.apiKey
    THEN [threw |-> FALSE, points |-> fallback,
          meta |-> [model |-> "fallback", visionNote |-> "LLM_NOT_CONNECTED"]]
    ELSE IF env.kind = "network" \/ ~ResponseOk(env.status) \/ ~env.bodyJson
    THEN [threw |-> FALSE, points |-> fallback,
          meta |-> [model |-> "fallback", visionNote |-> "LLM_ERROR"]]
    ELSE LET text == IF env.hasContent THEN env.text ELSE <<>>
             lines == PointsOfReply(text)
         IN  [threw |-> FALSE, points |-> IF Len(lines) > 0 THEN lines ELSE fallback,
              meta |-> [model |-> VisionModel(env), visionNote |-> "LLM_GENERATED"]]

\* body.bank of a third-revision body: absent, or a JSON value
\* (body.bank ?? "BankA").trim() rejects a value that is no string
BankThrows(body) == body.bank.t \notin {"undefined", "null", "string"}

\* s.trim() on the bank keys of the model
TrimKey(s) == IF s = " BankC " THEN "BankC" ELSE s

\* bankKey and policy (777-778)
BankKey(body) == IF body.bank.t = "string" THEN TrimKey(body.bank.s) ELSE "BankA"

PolicyOf(body) ==
    IF BankKey(body) \in DOMAIN BANK_POLICIES
    THEN BANK_POLICIES[BankKey(body)] ELSE BANK_POLICIES["BankA"]

\* The gate of the third revision (780-879): metrics, flags, result, required
\* and the actions of Trace.  Flag tokens, in the source's order:
\* INCOME_MISSING, LOAN_MISSING, DTI_OVER, DOWN_UNDER, LTI_OVER.
Gate3(body) ==
    LET policy == PolicyOf(body)
        incomeMan == clampNum(body.incomeMan, 0)
        assetsMan == clampNum(body.assetsMan, 0)
        otherDebtMan == clampNum(body.otherDebtMan, 0)
        loanRequestMan == clampNum(body.loanRequestMan, 0)
        monthlyIncomeMan == IF incomeMan > 0 THEN toFixed1(incomeMan \div 12) ELSE 0
        principalMan == loanRequestMan
        estMortgagePayMan ==
            IF principalMan > 0
            THEN toFixed1(pmtMan(principalMan, policy.annualRateBp, policy.years)) ELSE 0
        estOtherDebtPayMan ==
            IF otherDebtMan > 0
            THEN toFixed1(MulDiv(otherDebtMan, policy.otherDebtPayCoeff, CoeffDen)) ELSE 0
        dtiPct ==
            IF monthlyIncomeMan > 0
            THEN toFixed1(MulDiv(estMortgagePayMan + estOtherDebtPayMan, 100 * Unit,
                                 monthlyIncomeMan))
            ELSE 0
        downPaymentPct ==
            IF assetsMan + loanRequestMan > 0
            THEN toFixed1(MulDiv(assetsMan, 100 * Unit, assetsMan + loanRequestMan)) ELSE 0
        lti == IF incomeMan > 0 THEN toFixed1(MulDiv(loanRequestMan, Unit, incomeMan)) ELSE 0
        flags ==
            (IF incomeMan <= 0 THEN <<"INCOME_MISSING">> ELSE <<>>)
            \o (IF loanRequestMan <= 0 THEN <<"LOAN_MISSING">> ELSE <<>>)
            \o (IF monthlyIncomeMan > 0 /\ dtiPct > policy.dtiMaxPct * Unit
                   THEN <<"DTI_OVER">> ELSE <<>>)
            \o (IF downPaymentPct < policy.downPaymentMinPct * Unit
                   THEN <<"DOWN_UNDER">> ELSE <<>>)
            \o (IF incomeMan > 0 /\ lti > policy.ltiMax * Unit THEN <<"LTI_OVER">> ELSE <<>>)
        result == IF Len(flags) = 0 THEN "PASS" ELSE "HOLD"
        maxMonthlyTotalPayMan == MulDiv(monthlyIncomeMan, policy.dtiMaxPct, 100)
        maxMortgagePayMan == maxMonthlyTotalPayMan - estOtherDebtPayMan
        maxPrincipalByDTI ==
            IF maxMortgagePayMan > 0
            THEN pvFromPmtMan(maxMortgagePayMan, policy.annualRateBp, policy.years) ELSE 0
        reduceLoanManForDTI ==
            IF principalMan > 0 /\ maxPrincipalByDTI > 0
            THEN Max(0, MathRound(principalMan - maxPrincipalByDTI))
            ELSE IF principalMan > 0 /\ maxMortgagePayMan <= 0 THEN MathRound(principalMan)
            ELSE 0
        increaseAssetsManForDownPayment ==
            Max(0, MathRound(requiredExtraAssetsForDownPayment(
                                 assetsMan, loanRequestMan, policy.downPaymentMinPct)))
        reduceOtherDebtMan ==
            IF maxMortgagePayMan < 0 /\ otherDebtMan > 0
            THEN Min(otherDebtMan,
                     MathRound(MulDiv(Abs(maxMortgagePayMan), CoeffDen, policy.otherDebtPayCoeff)))
            ELSE 0
        actions ==
            (IF result = "HOLD" /\ reduceOtherDebtMan > 0 THEN <<"REDUCE_OTHER_DEBT">> ELSE <<>>)
            \o (IF result = "HOLD" /\ increaseAssetsManForDownPayment > 0
                   THEN <<"INCREASE_ASSETS">> ELSE <<>>)
            \o (IF result = "HOLD" /\ reduceLoanManForDTI > 0 THEN <<"REDUCE_LOAN">> ELSE <<>>)
            \o <<"RECHECK_INPUT", "CHECK_EXPENSES", "CHECK_RATE_CASES">>
    IN  [input |-> [incomeMan |-> incomeMan, assetsMan |-> assetsMan,
                    otherDebtMan |-> otherDebtMan, loanRequestMan |-> loanRequestMan,
                    family |-> body.family, job |-> body.job],
         ruleId |-> policy.ruleId,
         result |-> result,
         flags |-> flags,
         metrics |-> [monthlyIncomeMan |-> monthlyIncomeMan, principalMan |-> principalMan,
                      estMortgagePayMan |-> estMortgagePayMan,
                      estOtherDebtPayMan |-> estOtherDebtPayMan,
                      dtiPct |-> dtiPct, downPaymentPct |-> downPaymentPct, lti |-> lti],
         required |-> [reduceLoanManForDTI |-> reduceLoanManForDTI,
                       increaseAssetsManForDownPayment |-> increaseAssetsManForDownPayment,
                       reduceOtherDebtMan |-> reduceOtherDebtMan],
         actions |-> actions]

\* The response of the third POST (891-937) from the gate and the awaited
\* vision; the framework's 500 if the await rejects
Response3(gate, vision) ==
    IF vision.threw THEN [status |-> 500]
    ELSE [status |-> 200,
          V |-> vision.points,
          Lambda |-> [ruleId |-> gate.ruleId, result |-> gate.result, flags |-> gate.flags,
                      metrics |-> gate.metrics, required |-> gate.required],
          actions |-> gate.actions,
          meta |-> vision.meta]

\* Inputs of the third revision
Body3(bank, income, loan, assets, debt) ==
    [bank |-> bank, age |-> JUndef, job |-> JUndef, family |-> JUndef,
     incomeMan |-> income, assetsMan |-> assets, otherDebtMan |-> debt,
     loanRequestMan |-> loan]

BankVals == {JUndef, JStr("BankB"), JStr(" BankC "), JStr("Other"), JNum(1)}

Bodies3 ==
    {Body3(k, i, l, a, d) : k \in BankVals, i \in {JUndef, JNum(600)},
                            l \in {JNum(3000), JNum(6000)}, a \in {JNum(300), JNum(1000)},
                            d \in {JUndef, JNum(2000)}}

\* Reply texts: lines joined by "\n"
RECURSIVE Join(_)
Join(ls) ==
    IF ls = <<>> THEN <<>>
    ELSE IF Len(ls) = 1 THEN ls[1]
    ELSE ls[1] \o <<"\n">> \o Join(Tail(ls))

\* A line that is only a bullet, a one-character point, a longer point with
\* spaces around it
BlankLine == <<"-", " ">>
ShortLine == <<"-", " ", "a">>
LongLine == <<" ", "*", " ", "b", "c", " ">>

VisionTexts ==
    {Join(ls) : ls \in {<<>>, <<BlankLine>>, <<ShortLine>>, <<LongLine, BlankLine, ShortLine>>,
                        <<ShortLine, LongLine, ShortLine, LongLine, ShortLine>>}}

Envs ==
    {[apiKey |-> FALSE, model |-> "", kind |-> "http", status |-> 200, bodyJson |-> TRUE,
      hasContent |-> TRUE, text |-> Join(<<ShortLine>>)]}
    \cup {[apiKey |-> TRUE, model |-> "", kind |-> "network", status |-> 0, bodyJson |-> FALSE,
           hasContent |-> FALSE, text |-> <<>>]}
    \cup {[apiKey |-> TRUE, model |-> "", kind |-> "http", status |-> st, bodyJson |-> TRUE,
           hasContent |-> TRUE, text |-> Join(<<ShortLine>>)] : st \in {199, 300, 401, 500}}
    \cup {[apiKey |-> TRUE, model |-> "", kind |-> "http", status |-> 200, bodyJson |-> FALSE,
           hasContent |-> FALSE, text |-> <<>>]}
    \cup {[apiKey |-> TRUE, model |-> m, kind |-> "http", status |-> st, bodyJson |-> TRUE,
           hasContent |-> FALSE, text |-> <<>>] : m \in {"", "gpt-x"}, st \in {200, 299}}
    \cup {[apiKey |-> TRUE, model |-> m, kind |-> "http", status |-> 200, bodyJson |-> TRUE,
           hasContent |-> TRUE, text |-> t] : m \in {"", "gpt-x"}, t \in VisionTexts}

\* The third POST, up to the LLM call: the body is read and gated (774-879);
\* a bank that is no string ends the request with the framework's 500
Receive3(b) ==
    /\ gen = <<>>
    /\ gen' = <<IF BankThrows(b)
                THEN [stage |-> "done", body |-> b, env |-> <<>>, vision |-> <<>>,
                      out |-> <<[status |-> 500]>>]
                ELSE [stage |-> "calling", body |-> b, env |-> <<>>, vision |-> <<>>,
                      out |-> <<>>]>>
    /\ UNCHANGED <<phase, req, resp, hist, clock, amort, pick, pts, home, calc>>

\* await generateVisionPoints(...) (882-889) in the environment env
CallVision(env) ==
    /\ gen # <<>>
    /\ gen[1].stage = "calling"
    /\ gen' = <<[gen[1] EXCEPT
                  !.stage = "answering",
                  !.env = <<env>>,
                  !.vision = <<generateVisionPoints(Gate3(gen[1].body).input, env)>>]>>
    /\ UNCHANGED <<phase, req, resp, hist, clock, amort, pick, pts, home, calc>>

\* The response is built and returned (891-937)
Respond3 ==
    /\ gen # <<>>
    /\ gen[1].stage = "answering"
    /\ gen' = <<[gen[1] EXCEPT
                  !.stage = "done",
                  !.out = <<Response3(Gate3(gen[1].body), gen[1].vision[1])>>]>>
    /\ UNCHANGED <<phase, req, resp, hist, clock, amort, pick, pts, home, calc>>

NextVision ==
    \/ \E b \in Bodies3 : Receive3(b)
    \/ \E env \in Envs : CallVision(env)
    \/ Respond3

SpecVision == Init /\ [][NextVision]_vars

\* generateVisionPoints on every reply text of up to MaxLines lines
MaxLines == 9

LineKinds == {BlankLine, ShortLine, LongLine}

ReplyLines == UNION {[1..n -> LineKinds] : n \in 1..MaxLines}

\* The environment in which the provider replies with the given text
ReplyEnv(text) ==
    [apiKey |-> TRUE, model |-> "", kind |-> "http", status |-> 200, bodyJson |-> TRUE,
     hasContent |-> TRUE, text |-> text]

InitPoints ==
    /\ phase = "idle"
    /\ req = <<>>
    /\ resp = <<>>
    /\ hist = <<>>
    /\ clock = 0
    /\ amort = <<>>
    /\ pick = <<>>
    /\ gen = <<>>
    /\ home = <<>>
    /\ calc = <<>>
    /\ \E ls \in ReplyLines :
          pts = <<[stage |-> "reply", lines |-> ls, text |-> Join(ls), points |-> <<>>]>>

\* generateVisionPoints with the reply in hand (756-767)
ParseReply ==
    /\ pts # <<>>
    /\ pts[1].stage = "reply"
    /\ pts' = <<[pts[1] EXCEPT
                  !.stage = "parsed",
                  !.points = generateVisionPoints(Gate3(Body3(JUndef, JUndef, JUndef, JUndef, JUndef)).input,
                                                  ReplyEnv(pts[1].text)).points]>>
    /\ UNCHANGED <<phase, req, resp, hist, clock, amort, pick, gen, home, calc>>

NextPoints == ParseReply

SpecPoints == InitPoints /\ [][NextPoints]_vars

----------------------------------------------------------------------------
(* The Home page (src/app/page.tsx).  home[1].state is the React state of   *)
(* the component; home[1].view is the state as of the last render, which is *)
(* what the event handlers (closures of that render) and the rendered       *)
(* elements see; home[1].calls are the onGenerate calls that are suspended  *)
(* at an await.  Updates made in an event handler are rendered before the   *)
(* next event; updates made after an await are rendered by a later Render   *)
(* step.  The scroll position and the visibility flags of the sections     *)
(* (activeStep, visible) are left out: no handler reads them.               *)

FormFields ==
    {"age", "job", "incomeMan", "family", "assetsMan", "otherDebtMan", "loanRequestMan"}

\* initialForm (82-90)
initialForm == [f \in FormFields |-> ""]

\* The texts typed into a field, and String.prototype.trim on them
FormTexts == {"", " ", "600"}
TrimText == ("" :> "") @@ (" " :> "") @@ ("600" :> "600")

\* The fields the user edits
EditedFields == {"incomeMan", "loanRequestMan"}

ActionPaths == {"EMERGENCY", "LEARNING_A", "LEARNING_B"}

\* The useState initial values (182-201); null is <<>>
HomeState ==
    [form |-> initialForm,
     isLoading |-> FALSE,
     result |-> <<>>,
     error |-> <<>>,
     confirmTruth |-> FALSE,
     confirmNoDecision |-> FALSE,
     showAction |-> FALSE,
     actionPath |-> <<>>,
     commitNote |-> ""]

\* hasAnyInput (313-315)
hasAnyInput(S) == \E f \in FormFields : TrimText[S.form[f]] # ""

canSubmit_ignoresLoading(S) == hasAnyInput(S) /\ S.confirmTruth /\ S.confirmNoDecision

\* canSubmit (317-319)
canSubmit(S) == ~S.isLoading /\ hasAnyInput(S) /\ S.confirmTruth /\ S.confirmNoDecision

onGenerateStart_noReset(S) ==
    [S EXCEPT !.isLoading = TRUE, !.result = <<>>]

\* onGenerate up to its first await (324-331)
onGenerateStart(S) ==
    [S EXCEPT !.error = <<>>, !.isLoading = TRUE, !.result = <<>>,
              !.showAction = FALSE, !.actionPath = <<>>, !.commitNote = ""]

onGenerateEnd_noFinally(S, result, error) ==
    [S EXCEPT !.result = IF result # <<>> THEN result ELSE @,
              !.error = IF error # <<>> THEN error ELSE @]

\* onGenerate from its last await on: setResult (365) or the catch's setError
\* (367), then the finally's setIsLoading(false) (369)
onGenerateEnd(S, result, error) ==
    [S EXCEPT !.result = IF result # <<>> THEN result ELSE @,
              !.error = IF error # <<>> THEN error ELSE @,
              !.isLoading = FALSE]

MaxCalls == 2

\* The page with state S, freshly rendered, and the suspended calls cs
Page(S, cs) == [state |-> S, view |-> S, calls |-> cs]

\* The page after an update outside an event handler: not yet rendered
Updated(S, cs) == [state |-> S, view |-> home[1].view, calls |-> cs]

Without(cs, i) == SubSeq(cs, 1, i - 1) \o SubSeq(cs, i + 1, Len(cs))

HomeUnchanged == UNCHANGED <<phase, req, resp, hist, clock, amort, pick, gen, pts, calc>>

\* onChange of a form field (509-551): setForm({ ...form, [f]: v })
EditField(f, v) ==
    /\ home # <<>>
    /\ home' = <<Page([home[1].state EXCEPT !.form = [home[1].view.form EXCEPT ![f] = v]],
                      home[1].calls)>>
    /\ HomeUnchanged

\* onChange of the first confirmation checkbox (618)
ToggleConfirmTruth ==
    /\ home # <<>>
    /\ home' = <<Page([home[1].state EXCEPT !.confirmTruth = ~home[1].view.confirmTruth],
                      home[1].calls)>>
    /\ HomeUnchanged

\* onChange of the second confirmation checkbox (628)
ToggleConfirmNoDecision ==
    /\ home # <<>>
    /\ home' = <<Page([home[1].state EXCEPT !.confirmNoDecision = ~home[1].view.confirmNoDecision],
                      home[1].calls)>>
    /\ HomeUnchanged

\* A click on the generate button (640-642): the button is disabled unless
\* canSubmit, and onGenerate returns at once unless canSubmit (322); then the
\* payload is built from the form and fetch is awaited (333-357)
ClickGenerate ==
    /\ home # <<>>
    /\ canSubmit(home[1].view)
    /\ Len(home[1].calls) < MaxCalls
    /\ home' = <<Page(onGenerateStart(home[1].state),
                      Append(home[1].calls, [await |-> "fetch", form |-> home[1].view.form]))>>
    /\ HomeUnchanged

\* fetch resolves with a 2xx response: res.json() is awaited (364)
FetchOk(i) ==
    /\ home # <<>>
    /\ i \in DOMAIN home[1].calls
    /\ home[1].calls[i].await = "fetch"
    /\ home' = <<[home[1] EXCEPT !.calls[i].await = "json"]>>
    /\ HomeUnchanged

\* fetch resolves with another status: res.text() is awaited (359-360)
FetchNotOk(i) ==
    /\ home # <<>>
    /\ i \in DOMAIN home[1].calls
    /\ home[1].calls[i].await = "fetch"
    /\ home' = <<[home[1] EXCEPT !.calls[i].await = "text"]>>
    /\ HomeUnchanged

\* fetch rejects (no connection): catch, finally
FetchFails(i) ==
    /\ home # <<>>
    /\ i \in DOMAIN home[1].calls
    /\ home[1].calls[i].await = "fetch"
    /\ home' = <<Updated(onGenerateEnd(home[1].state, <<>>, <<"Failed to fetch">>),
                         Without(home[1].calls, i))>>
    /\ HomeUnchanged

\* res.json() resolves with the ApiResult of the request: setResult, finally
JsonOk(i) ==
    /\ home # <<>>
    /\ i \in DOMAIN home[1].calls
    /\ home[1].calls[i].await = "json"
    /\ home' = <<Updated(onGenerateEnd(home[1].state, <<[E |-> home[1].calls[i].form]>>, <<>>),
                         Without(home[1].calls, i))>>
    /\ HomeUnchanged

\* res.json() rejects (the body is not JSON): catch, finally
JsonFails(i) ==
    /\ home # <<>>
    /\ i \in DOMAIN home[1].calls
    /\ home[1].calls[i].await = "json"
    /\ home' = <<Updated(onGenerateEnd(home[1].state, <<>>, <<"Unexpected token">>),
                         Without(home[1].calls, i))>>
    /\ HomeUnchanged

\* res.text() settles (a rejection gives ""): throw new Error (361), catch,
\* finally
TextDone(i) ==
    /\ home # <<>>
    /\ i \in DOMAIN home[1].calls
    /\ home[1].calls[i].await = "text"
    /\ home' = <<Updated(onGenerateEnd(home[1].state, <<>>, <<"API error">>),
                         Without(home[1].calls, i))>>
    /\ HomeUnchanged

\* React renders the updates made outside an event handler
Render ==
    /\ home # <<>>
    /\ home[1].view # home[1].state
    /\ home' = <<[home[1] EXCEPT !.view = home[1].state]>>
    /\ HomeUnchanged

\* A click on "Continue to Action Loop" (434-440, 1024-1026): disabled
\* unless there is a result
scrollToAction ==
    /\ home # <<>>
    /\ home[1].view.result # <<>>
    /\ home' = <<Page([home[1].state EXCEPT !.showAction = TRUE], home[1].calls)>>
    /\ HomeUnchanged

\* A click on one of the three commit buttons (1110-1137), which are rendered
\* only while showAction (1043)
ChooseActionPath(p) ==
    /\ home # <<>>
    /\ home[1].view.showAction
    /\ home' = <<Page([home[1].state EXCEPT !.actionPath = <<p>>], home[1].calls)>>
    /\ HomeUnchanged

\* onChange of the commit note (1142-1144), rendered only while showAction
EditCommitNote(t) ==
    /\ home # <<>>
    /\ home[1].view.showAction
    /\ home' = <<Page([home[1].state EXCEPT !.commitNote = t], home[1].calls)>>
    /\ HomeUnchanged

InitHome ==
    /\ phase = "idle"
    /\ req = <<>>
    /\ resp = <<>>
    /\ hist = <<>>
    /\ clock = 0
    /\ amort = <<>>
    /\ pick = <<>>
    /\ gen = <<>>
    /\ pts = <<>>
    /\ calc = <<>>
    /\ home = <<Page(HomeState, <<>>)>>

NextHome ==
    \/ \E f \in EditedFields, v \in FormTexts : EditField(f, v)
    \/ ToggleConfirmTruth
    \/ ToggleConfirmNoDecision
    \/ ClickGenerate
    \/ \E i \in 1..MaxCalls : FetchOk(i)
    \/ \E i \in 1..MaxCalls : FetchNotOk(i)
    \/ \E i \in 1..MaxCalls : FetchFails(i)
    \/ \E i \in 1..MaxCalls : JsonOk(i)
    \/ \E i \in 1..MaxCalls : JsonFails(i)
    \/ \E i \in 1..MaxCalls : TextDone(i)
    \/ Render
    \/ scrollToAction
    \/ \E p \in ActionPaths : ChooseActionPath(p)
    \/ \E t \in {"", "approved"} : EditCommitNote(t)

SpecHome == InitHome /\ [][NextHome]_vars

----------------------------------------------------------------------------
(* The page's own metrics (src/app/page.tsx, calcDerivedMetrics), shown     *)
(* while there is no server result, beside the metrics the server reports   *)
(* for the same form                                                        *)

toFinite_nonFiniteAsOne(v) == IF Number(v).finite THEN NumberUnits(v) ELSE Unit

\* toFinite (176-179)
toFinite(v) == IF Number(v).finite THEN NumberUnits(v) ELSE 0

\* Number(text) as a JavaScript value, for a text of the form
NumberOfText(text) ==
    IF Number(JStr(text)).finite THEN JNum(Number(JStr(text)).n) ELSE JNaN

\* The policy values the page falls back to while there is no result (379-385)
PageDefaults == [annualRateBp |-> 150, years |-> 35]

\* calcDerivedMetrics (121-171); the page's round1 (173-175) is the route's
calcDerivedMetrics(input) ==
    LET incomeMan == toFinite(input.incomeMan)
        loanMan == toFinite(input.loanRequestMan)
        assetsMan == toFinite(input.assetsMan)
        otherDebtMan == toFinite(input.otherDebtMan)
        monthlyIncomeMan == IF incomeMan > 0 THEN incomeMan \div 12 ELSE 0
        principalMan == loanMan
        rBp == IF input.annualRateBp > 0 THEN input.annualRateBp ELSE 0
        n == Months(input.years * YearDen)
        pow == Pow1r(rBp, n)
        estMortgagePayMan ==
            IF principalMan > 0
            THEN IF rBp = 0 THEN principalMan \div n
                 ELSE MulDiv(principalMan, MulDiv(pow, rBp, RateDen), pow - PowScale)
            ELSE 0
        estOtherDebtPayMan == IF otherDebtMan > 0 THEN MulDiv(otherDebtMan, 2, 100) ELSE 0
        dtiPct ==
            IF monthlyIncomeMan > 0
            THEN MulDiv(estMortgagePayMan + estOtherDebtPayMan, 100 * Unit, monthlyIncomeMan)
            ELSE 0
        downPaymentPct ==
            IF loanMan + assetsMan > 0
            THEN MulDiv(assetsMan, 100 * Unit, loanMan + assetsMan)
            ELSE 0
        lti == IF incomeMan > 0 THEN MulDiv(loanMan, Unit, incomeMan) ELSE 0
    IN  [monthlyIncomeMan |-> round1(monthlyIncomeMan),
         principalMan |-> round1(principalMan),
         estMortgagePayMan |-> round1(estMortgagePayMan),
         estOtherDebtPayMan |-> round1(estOtherDebtPayMan),
         dtiPct |-> round1(dtiPct),
         downPaymentPct |-> round1(downPaymentPct),
         lti |-> round1(lti)]

\* The argument of calcDerivedMetrics in the derived memo (401-408): an empty
\* field is 0
DerivedInput(form) ==
    [incomeMan |-> IF form.incomeMan # "" THEN NumberOfText(form.incomeMan) ELSE JNum(0),
     loanRequestMan |->
        IF form.loanRequestMan # "" THEN NumberOfText(form.loanRequestMan) ELSE JNum(0),
     assetsMan |-> IF form.assetsMan # "" THEN NumberOfText(form.assetsMan) ELSE JNum(0),
     otherDebtMan |-> IF form.otherDebtMan # "" THEN NumberOfText(form.otherDebtMan) ELSE JNum(0),
     annualRateBp |-> PageDefaults.annualRateBp,
     years |-> PageDefaults.years]

\* The payload of onGenerate (336-343): an empty field is undefined
PayloadOf(form) ==
    [age |-> IF form.age # "" THEN NumberOfText(form.age) ELSE JUndef,
     job |-> IF form.job # "" THEN JStr(form.job) ELSE JUndef,
     family |-> IF form.family # "" THEN JStr(form.family) ELSE JUndef,
     incomeMan |-> IF form.incomeMan # "" THEN NumberOfText(form.incomeMan) ELSE JUndef,
     assetsMan |-> IF form.assetsMan # "" THEN NumberOfText(form.assetsMan) ELSE JUndef,
     otherDebtMan |-> IF form.otherDebtMan # "" THEN NumberOfText(form.otherDebtMan) ELSE JUndef,
     loanRequestMan |->
        IF form.loanRequestMan # "" THEN NumberOfText(form.loanRequestMan) ELSE JUndef]

\* JSON.stringify (356) then req.json() on a value: NaN and the infinities
\* are written as null
JsonOf(v) == IF v.t = "number" /\ ~Number(v).finite THEN JNull ELSE v

\* The body the handler parses from the payload of a form
WireBody(form) == [f \in DOMAIN PayloadOf(form) |-> JsonOf(PayloadOf(form)[f])]

\* The texts of the four amount fields
AmountTexts == {"", " ", "abc", "0", "-100", "600", "2000"}

AmountForms ==
    {[initialForm EXCEPT !.incomeMan = i, !.loanRequestMan = l, !.assetsMan = a,
                         !.otherDebtMan = d] :
        i \in AmountTexts, l \in AmountTexts, a \in AmountTexts, d \in AmountTexts}

InitDerived ==
    /\ phase = "idle"
    /\ req = <<>>
    /\ resp = <<>>
    /\ hist = <<>>
    /\ clock = 0
    /\ amort = <<>>
    /\ pick = <<>>
    /\ gen = <<>>
    /\ pts = <<>>
    /\ home = <<>>
    /\ \E form \in AmountForms :
          calc = <<[stage |-> "form", form |-> form, client |-> <<>>, server |-> <<>>]>>

\* The page computes its metrics for the form, and the handler answers the
\* request the page would send for it
Derive ==
    /\ calc # <<>>
    /\ calc[1].stage = "form"
    /\ calc' = <<[calc[1] EXCEPT
                    !.stage = "derived",
                    !.client = <<calcDerivedMetrics(DerivedInput(calc[1].form))>>,
                    !.server = <<POST([ok |-> TRUE, body |-> WireBody(calc[1].form)],
                                      clock).metrics>>]>>
    /\ UNCHANGED <<phase, req, resp, hist, clock, amort, pick, gen, pts, home>>

SpecDerived == InitDerived /\ [][Derive]_vars

----------------------------------------------------------------------------
(* Properties *)

Range(f) == {f[i] : i \in DOMAIN f}

InputTokens == <<"INCOME_INVALID", "LOAN_INVALID", "ASSETS_NEGATIVE", "DEBT_NEGATIVE">>
RatioTokens == <<"DTI_OVER", "DOWN_UNDER", "LTI_OVER">>

\* The position of token x in the list ts (0 if absent)
IndexIn(ts, x) == IF x \in Range(ts) THEN CHOOSE i \in DOMAIN ts : ts[i] = x ELSE 0

\* g lists tokens of ts only, each at most once, in the order of ts
OrderedSublist(g, ts) ==
    /\ Range(g) \subseteq Range(ts)
    /\ \A i, j \in DOMAIN g : i < j => IndexIn(ts, g[i]) < IndexIn(ts, g[j])

\* The four input-validity conditions on the normalised input E, in order
InputConditions(E) ==
    <<E.incomeMan <= 0, E.loanRequestMan <= 0, E.assetsMan < 0, E.otherDebtMan < 0>>

AnyInputInvalid(E) == \E i \in 1..4 : InputConditions(E)[i]

\* The three ratio violations on the ratios before rounding, in order
RatioViolations(raw) ==
    <<raw.dtiPct > 35 * Unit, raw.downPaymentPct < 10 * Unit, raw.lti > 7 * Unit>>

\* C1: the decision of every response is HOLD exactly when gateReasons is
\* non-empty and PASS exactly when it is empty.
C1_DecisionIffReasons ==
    resp # <<>> =>
        LET o == resp[1].out
        IN  /\ (o.result = "HOLD") <=> (o.gateReasons # <<>>)
            /\ (o.result = "PASS") <=> (o.gateReasons = <<>>)

C1_Witness ==
    /\ resp # <<>>
    /\ resp[1].out.result = "HOLD"
    /\ Len(resp[1].out.gateReasons) = 1

\* C2: when an input-validity condition fires, gateReasons holds exactly one
\* reason per fired condition, in the fixed order, and no DTI, down-payment or
\* LTI reason, whatever the ratios are.
C2_InputReasonsOnly ==
    resp # <<>> =>
        LET o == resp[1].out
            g == o.gateReasons
        IN  AnyInputInvalid(o.E) =>
                /\ OrderedSublist(g, InputTokens)
                /\ \A i \in 1..4 : InputConditions(o.E)[i] <=> (InputTokens[i] \in Range(g))

\* An invalid input (negative assets) whose ratios violate a threshold
C2_Witness ==
    /\ resp # <<>>
    /\ resp[1].out.gateReasons = <<"ASSETS_NEGATIVE">>
    /\ resp[1].out.raw.lti > 7 * Unit

\* C3: when no input-validity condition fires, gateReasons is the sub-list of
\* <<DTI, down payment, LTI>> of the ratios that violate their thresholds
\* strictly; a ratio exactly on its threshold does not fire.
C3_RatioReasonsExact ==
    resp # <<>> =>
        LET o == resp[1].out
            g == o.gateReasons
        IN  ~AnyInputInvalid(o.E) =>
                /\ OrderedSublist(g, RatioTokens)
                /\ \A i \in 1..3 : RatioViolations(o.raw)[i] <=> (RatioTokens[i] \in Range(g))
                /\ o.raw.dtiPct = 35 * Unit => "DTI_OVER" \notin Range(g)
                /\ o.raw.downPaymentPct = 10 * Unit => "DOWN_UNDER" \notin Range(g)
                /\ o.raw.lti = 7 * Unit => "LTI_OVER" \notin Range(g)

\* Valid input, the down-payment ratio exactly 10 %, another ratio violated
C3_Witness ==
    /\ resp # <<>>
    /\ ~AnyInputInvalid(resp[1].out.E)
    /\ resp[1].out.raw.downPaymentPct = 10 * Unit
    /\ resp[1].out.gateReasons = <<"LTI_OVER">>

\* C4: bottleneck is DTI, DOWN or LTI whenever the decision is HOLD and one of
\* the three ratio thresholds is violated, and none whenever it is PASS.
C4_BottleneckDefined ==
    resp # <<>> =>
        LET o == resp[1].out
        IN  /\ (o.result = "HOLD" /\ (\E i \in 1..3 : RatioViolations(o.raw)[i]))
                => o.bottleneck \in {"DTI", "DOWN", "LTI"}
            /\ o.result = "PASS" => o.bottleneck = "none"

\* PASS with a ratio exactly on its threshold (LTI = 7)
C4_Witness ==
    /\ resp # <<>>
    /\ resp[1].out.result = "PASS"
    /\ resp[1].out.raw.lti = 7 * Unit
    /\ resp[1].out.bottleneck = "none"

\* C5 (as claimed): whenever gateReasons holds input-validity reasons only, the
\* bottleneck is none; the request incomeMan = 0, loanRequestMan = 3000 (other
\* fields absent) returns HOLD, the income reason, and bottleneck none.
C5_InputOnlyNoBottleneck ==
    resp # <<>> =>
        LET o == resp[1].out
            b == resp[1].body
        IN  /\ (o.gateReasons # <<>> /\ Range(o.gateReasons) \subseteq Range(InputTokens))
                => o.bottleneck = "none"
            /\ (b = Body(JNum(0), JNum(3000), JUndef, JUndef, SoftNone))
                => /\ o.result = "HOLD"
                   /\ "INCOME_INVALID" \in Range(o.gateReasons)
                   /\ o.bottleneck = "none"

\* C5, divergence: the handler computes the bottleneck from the ratios even
\* when the ratio checks were skipped; the claimed request returns DOWN.
C5_Divergence ==
    /\ resp # <<>>
    /\ resp[1].body = Body(JNum(0), JNum(3000), JUndef, JUndef, SoftNone)
    /\ resp[1].out.gateReasons = <<"INCOME_INVALID">>
    /\ resp[1].out.bottleneck = "DOWN"

\* The response without its envelope metadata
WithoutMeta(o) == [o EXCEPT !.traceId = 0, !.generatedAt = 0]

BothAnswered == hist # <<>> /\ resp # <<>>

MoneyOf(b) == <<b.incomeMan, b.loanRequestMan, b.assetsMan, b.otherDebtMan>>
SoftOf(b) == <<b.age, b.job, b.family>>
SoftTokens == {"AGE_AT_PAYOFF", "JOB_STABILITY", "FAMILY_COST"}

C8_RequiredNonNegative ==
    resp # <<>> =>
        LET r == resp[1].out.required
        IN  /\ r.reduceLoanManForDTI >= 0
            /\ r.increaseAssetsManForDownPayment >= 0
            /\ r.reduceOtherDebtMan >= 0

\* A response whose loan is below the affordable principal and whose assets
\* exceed the required ones: both differences are negative before the floor
C8_Witness ==
    /\ resp # <<>>
    /\ resp[1].out.E.incomeMan > 0
    /\ resp[1].out.E.loanRequestMan > 0
    /\ resp[1].out.E.otherDebtMan < 0
    /\ 9 * (resp[1].out.E.assetsMan \div Unit) > resp[1].out.E.loanRequestMan \div Unit
    /\ resp[1].out.raw.dtiPct < 35 * Unit
    /\ resp[1].out.required.reduceLoanManForDTI = 0
    /\ resp[1].out.required.increaseAssetsManForDownPayment = 0

\* C9: of two requests with monetary fields >= 0 that differ only in
\* loanRequestMan, the one with the larger loan has a dtiPct and an lti that
\* are not smaller and a downPaymentPct that is not larger (before rounding
\* and as reported).
C9_MonotoneInLoan ==
    (/\ BothAnswered
     /\ SoftOf(hist[1].body) = SoftOf(resp[1].body)
     /\ hist[1].out.E.incomeMan = resp[1].out.E.incomeMan
     /\ hist[1].out.E.assetsMan = resp[1].out.E.assetsMan
     /\ hist[1].out.E.otherDebtMan = resp[1].out.E.otherDebtMan
     /\ \A x \in Range(MoneyOf(hist[1].body)) \cup Range(MoneyOf(resp[1].body)) : fin(x) >= 0
     /\ hist[1].out.E.loanRequestMan <= resp[1].out.E.loanRequestMan)
        => LET a == hist[1].out
               b == resp[1].out
           IN  /\ a.raw.dtiPct <= b.raw.dtiPct
               /\ a.raw.lti <= b.raw.lti
               /\ a.raw.downPaymentPct >= b.raw.downPaymentPct
               /\ a.metrics.dtiPct <= b.metrics.dtiPct
               /\ a.metrics.lti <= b.metrics.lti
               /\ a.metrics.downPaymentPct >= b.metrics.downPaymentPct

\* Loans 3000 and 4500 on the same income and assets: all three ratios move
C9_Witness ==
    /\ BothAnswered
    /\ SoftOf(hist[1].body) = SoftOf(resp[1].body)
    /\ hist[1].out.E.incomeMan = resp[1].out.E.incomeMan
    /\ hist[1].out.E.assetsMan = resp[1].out.E.assetsMan
    /\ hist[1].out.E.loanRequestMan = 3000 * Unit
    /\ resp[1].out.E.loanRequestMan = 4500 * Unit
    /\ hist[1].out.raw.dtiPct < resp[1].out.raw.dtiPct
    /\ hist[1].out.raw.lti < resp[1].out.raw.lti
    /\ hist[1].out.raw.downPaymentPct > resp[1].out.raw.downPaymentPct

\* The arithmetic tolerance of the round trip: 0.01 man-yen
Tolerance == Unit \div 100

\* C10: for principal > 0, rate >= 0 and years > 0,
\* principalFromPaymentMan(amortPaymentMan(principal, rate, years), rate, years)
\* is the principal up to the tolerance, at rate 0 and at a non-zero rate.
C10_RoundTrip ==
    (amort # <<>> /\ amort[1].stage = "inverted")
        => Abs(amort[1].back - amort[1].principalMan) <= Tolerance

\* The policy's own rate and term, inverted
C10_Witness ==
    /\ amort # <<>>
    /\ amort[1].stage = "inverted"
    /\ amort[1].annualRateBp = 150
    /\ amort[1].years = 35 * YearDen
    /\ amort[1].principalMan = 3000 * Unit
    /\ amort[1].paymentMan > 0

\* The numbers a response reports: metrics, headroom and required
ReportedNumbers(o) ==
    {o.metrics.monthlyIncomeMan, o.metrics.principalMan, o.metrics.estMortgagePayMan,
     o.metrics.estOtherDebtPayMan, o.metrics.dtiPct, o.metrics.downPaymentPct, o.metrics.lti,
     o.headroom.dtiPct, o.headroom.downPaymentPct, o.headroom.lti,
     o.required.reduceLoanManForDTI, o.required.increaseAssetsManForDownPayment,
     o.required.reduceOtherDebtMan}

MoneyFields == {"incomeMan", "assetsMan", "otherDebtMan", "loanRequestMan"}

\* A JSON value that is missing or is no finite number: absent, null, a
\* number beyond the doubles, or a string that spells no number
NoFiniteNumber(x) ==
    \/ x.t \in {"undefined", "null"}
    \/ x.t = "number" /\ x.s = "Infinity"
    \/ x.t = "string" /\ x.s \notin DOMAIN NumericStrings

C13_MalformedIs400 ==
    (resp # <<>> /\ resp[1].malformed) =>
        /\ resp[1].out.status = 400
        /\ "result" \notin DOMAIN resp[1].out

\* C13 (amended): a request whose body is not JSON is answered as the empty
\* object is: status 200 and a gate result, HOLD with the income and the loan
\* input reasons, all four monetary inputs 0.
C13_MalformedIsEmptyBody ==
    (resp # <<>> /\ resp[1].malformed) =>
        /\ resp[1].out.status = 200
        /\ resp[1].out.result = "HOLD"
        /\ resp[1].out.gateReasons = <<"INCOME_INVALID", "LOAN_INVALID">>
        /\ \A f \in MoneyFields : resp[1].out.E[f] = 0

C13_Witness ==
    /\ resp # <<>>
    /\ resp[1].malformed
    /\ resp[1].out.status = 200
    /\ resp[1].out.result = "HOLD"

\* The LLM is unavailable: no credential, the call fails on the network, the
\* provider answers outside 200..299, or its body is no JSON
LlmUnavailable(env) ==
    \/ ~env.apiKey
    \/ env.kind = "network"
    \/ env.status < 200 \/ env.status > 299
    \/ ~env.bodyJson

\* C14: whenever the credential is missing, the provider answers with a
\* non-2xx status or the call throws, generateVisionPoints returns the
\* fallback list without throwing, and the handler's response is a normal
\* one (status 200) with V the fallback list and the gate result.
C14_VisionFailureFallsBack ==
    (gen # <<>> /\ gen[1].vision # <<>> /\ LlmUnavailable(gen[1].env[1])) =>
        /\ ~gen[1].vision[1].threw
        /\ gen[1].vision[1].points = fallback
        /\ gen[1].stage = "done" =>
              /\ gen[1].out[1].status = 200
              /\ gen[1].out[1].V = fallback
              /\ gen[1].out[1].Lambda.result \in {"PASS", "HOLD"}
              /\ gen[1].out[1].Lambda.result = Gate3(gen[1].body).result

\* The call failed on the network and the request was answered, a PASS
C14_Witness ==
    /\ gen # <<>>
    /\ gen[1].stage = "done"
    /\ gen[1].env # <<>>
    /\ gen[1].env[1].apiKey
    /\ gen[1].env[1].kind = "network"
    /\ gen[1].out[1].status = 200
    /\ gen[1].out[1].V = fallback
    /\ gen[1].out[1].Lambda.result = "PASS"

\* A reply line with a character that is neither a bullet nor white space
HasContent(l) == \E i \in DOMAIN l : l[i] \notin BulletChars \cup WhiteSpace

\* What is left of a line of the model once its bullet and spaces are gone
Stripped(l) == IF l = ShortLine THEN <<"a">> ELSE IF l = LongLine THEN <<"b", "c">> ELSE <<>>

IsExample(E) ==
    /\ E.incomeMan = 600 * Unit
    /\ E.loanRequestMan = 3000 * Unit
    /\ E.assetsMan = 300 * Unit
    /\ E.otherDebtMan = 0

Distances(raw) ==
    <<POLICY.dtiMaxPct * Unit - raw.dtiPct,
      raw.downPaymentPct - POLICY.downPaymentMinPct * Unit,
      POLICY.ltiMax * Unit - raw.lti>>

HeadroomOf(o) == <<o.headroom.dtiPct, o.headroom.downPaymentPct, o.headroom.lti>>

\* C17 (as claimed): each headroom component is negative exactly when its
\* ratio violates its threshold.
C17_NegativeIffViolated ==
    resp # <<>> =>
        \A i \in 1..3 : (HeadroomOf(resp[1].out)[i] < 0) <=> (Distances(resp[1].out.raw)[i] < 0)

\* C17 (amended): each headroom component is the signed distance rounded to
\* one decimal: zero or positive whenever the ratio does not violate its
\* threshold, negative only when it does, negative whenever the violation is
\* 0.06 or more, and zero when the violation is smaller than 0.05.
C17_RoundedDistance ==
    resp # <<>> =>
        \A i \in 1..3 :
            LET h == HeadroomOf(resp[1].out)[i]
                d == Distances(resp[1].out.raw)[i]
            IN  /\ d >= 0 => h >= 0
                /\ h < 0 => d < 0
                /\ d <= -(6 * Unit) \div 100 => h < 0
                /\ (d < 0 /\ d > -(Unit \div 20)) => h = 0

\* LTI 7.01 on valid input: the gate holds on LTI and the headroom is 0
C17_Witness ==
    /\ resp # <<>>
    /\ "LTI_OVER" \in Range(resp[1].out.gateReasons)
    /\ resp[1].out.raw.lti = 701 * (Unit \div 100)
    /\ resp[1].out.headroom.lti = 0
    /\ resp[1].out.headroom.downPaymentPct < 0

\* The whole number of months nearest to a term, a half month rounded up,
\* and at least 1
NearestMonths(years) ==
    LET twelfths == 12 * years        \* the term in 1/YearDen of a month
        whole == twelfths \div YearDen
    IN  Max(1, IF 2 * (twelfths % YearDen) >= YearDen THEN whole + 1 ELSE whole)

\* C18 (as claimed): at rate 0, for every principal > 0 and years > 0, the
\* payment is exactly principal / (years x 12).
C18_ZeroRateOverYears ==
    (amort # <<>> /\ amort[1].stage # "input" /\ amort[1].annualRateBp = 0) =>
        amort[1].paymentMan = MulDiv(amort[1].principalMan, YearDen, 12 * amort[1].years)

\* C18 (amended): at rate 0, for every principal > 0 and years > 0, the
\* payment is exactly principal / n, n the whole number of months nearest to
\* years x 12 and at least 1; it is principal / (years x 12) when years x 12
\* is a whole number >= 1.
C18_ZeroRateOverMonths ==
    (amort # <<>> /\ amort[1].stage # "input" /\ amort[1].annualRateBp = 0) =>
        /\ amort[1].paymentMan = amort[1].principalMan \div NearestMonths(amort[1].years)
        /\ ((12 * amort[1].years) % YearDen = 0) =>
              amort[1].paymentMan = MulDiv(amort[1].principalMan, YearDen, 12 * amort[1].years)

\* A term of 0.1 year (1.2 months) at rate 0: the payment is the principal
C18_Witness ==
    /\ amort # <<>>
    /\ amort[1].stage = "paid"
    /\ amort[1].annualRateBp = 0
    /\ amort[1].years = 10
    /\ amort[1].principalMan = 3000 * Unit
    /\ amort[1].paymentMan = 3000 * Unit

\* x is y up to one step of the reported precision (0.1)
About(x, tenths) == Abs(x - tenths * (Unit \div 10)) <= Unit \div 10

\* C19 (as claimed): the example request reports monthlyIncomeMan 50,
\* estMortgagePayMan about 8.9, dtiPct about 17.8, downPaymentPct about 9.1.
C19_ExampleMetricsAsStated ==
    (resp # <<>> /\ IsExample(resp[1].out.E)) =>
        LET m == resp[1].out.metrics
        IN  /\ m.monthlyIncomeMan = 50 * Unit
            /\ About(m.estMortgagePayMan, 89)
            /\ About(m.dtiPct, 178)
            /\ About(m.downPaymentPct, 91)

\* C19 (amended): the example request reports monthlyIncomeMan 50,
\* estMortgagePayMan 9.2 (9.19 before rounding), dtiPct 18.4 (18.37) and
\* downPaymentPct 9.1 (9.09).
C19_ExampleMetrics ==
    (resp # <<>> /\ IsExample(resp[1].out.E)) =>
        LET m == resp[1].out.metrics
            raw == resp[1].out.raw
        IN  /\ m.monthlyIncomeMan = 50 * Unit
            /\ m.estMortgagePayMan = 92 * (Unit \div 10)
            /\ m.dtiPct = 184 * (Unit \div 10)
            /\ m.downPaymentPct = 91 * (Unit \div 10)
            /\ Abs(raw.dtiPct - 1837 * (Unit \div 100)) <= Unit \div 100
            /\ Abs(raw.downPaymentPct - 909 * (Unit \div 100)) <= Unit \div 100

C19_Witness ==
    /\ resp # <<>>
    /\ IsExample(resp[1].out.E)
    /\ resp[1].out.metrics.principalMan = 3000 * Unit
    /\ resp[1].out.metrics.estMortgagePayMan > 9 * Unit
    /\ resp[1].out.metrics.lti = 5 * Unit

\* The three gaps of pickBottleneck, in the order DTI, DOWN, LTI
PickOrder == <<"DTI", "DOWN", "LTI">>

Gaps(p) ==
    <<p.dtiPct - POLICY.dtiMaxPct * Unit,
      POLICY.downPaymentMinPct * Unit - p.downPct,
      p.lti - POLICY.ltiMax * Unit>>

\* C20: pickBottleneck returns none iff no gap is > 0; otherwise it returns
\* the constraint with the largest gap, and of several with that same gap the
\* first in the order DTI, DOWN, LTI.
C20_LargestGapFirstWins ==
    (pick # <<>> /\ pick[1].stage = "picked") =>
        LET g == Gaps(pick[1])
            b == pick[1].bottleneck
        IN  /\ (b = "none") <=> (\A i \in 1..3 : g[i] <= 0)
            /\ b # "none" =>
                  \E i \in 1..3 :
                      /\ b = PickOrder[i]
                      /\ g[i] > 0
                      /\ \A j \in 1..3 : g[j] <= g[i]
                      /\ \A j \in 1..(i - 1) : g[j] < g[i]

\* DOWN and LTI exceed by the same, largest, amount: DOWN is returned
C20_Witness ==
    /\ pick # <<>>
    /\ pick[1].stage = "picked"
    /\ Gaps(pick[1])[2] = 3 * Unit
    /\ Gaps(pick[1])[3] = 3 * Unit
    /\ Gaps(pick[1])[1] = 2 * Unit
    /\ pick[1].bottleneck = "DOWN"

\* A response to a request whose four amounts pass the input-validity gate
ValidInput(o) == Len(InputReasons(o.E)) = 0

\* The DTI budget of a normalised input, monthlyIncome x dtiMaxPct / 100, and
\* what is left of it after the other-debt payment
DtiBudget(E) == MulDiv(MonthlyIncomeMan(E), POLICY.dtiMaxPct, 100)
DtiRemainder(E) == DtiBudget(E) - EstOtherDebtPayMan(E)

\* C21: for every request with incomeMan > 0 and loanRequestMan > 0, if the
\* DTI budget minus the other-debt payment is <= 0 then reduceLoanManForDTI is
\* 0 and reduceOtherDebtMan is the payment's excess over the budget divided by
\* otherDebtMonthlyPct/100; otherwise reduceOtherDebtMan is 0 and
\* reduceLoanManForDTI is max(0, loanRequestMan - principalFromPaymentMan(
\* remainder)); the two are never both non-zero.  (Reported values: to one
\* decimal.)
C21_DtiBranches ==
    (resp # <<>> /\ resp[1].out.E.incomeMan > 0 /\ resp[1].out.E.loanRequestMan > 0) =>
        LET E == resp[1].out.E
            required == resp[1].out.required
        IN  /\ DtiRemainder(E) <= 0 =>
                  /\ required.reduceLoanManForDTI = 0
                  /\ required.reduceOtherDebtMan =
                        round1(MulDiv(EstOtherDebtPayMan(E) - DtiBudget(E), 100,
                                      POLICY.otherDebtMonthlyPct))
            /\ DtiRemainder(E) > 0 =>
                  /\ required.reduceOtherDebtMan = 0
                  /\ required.reduceLoanManForDTI =
                        round1(Max(0, E.loanRequestMan
                                      - principalFromPaymentMan(DtiRemainder(E), POLICY.annualRateBp,
                                                                POLICY.years * YearDen)))
            /\ ~(required.reduceLoanManForDTI # 0 /\ required.reduceOtherDebtMan # 0)

\* Income 100, other debt 875, loan 3000: the other-debt payment 17.5 exceeds
\* the budget 2.92 by 14.58, which is 729.2 of debt at 2 % a month
C21_Witness ==
    /\ resp # <<>>
    /\ resp[1].out.E.incomeMan = 100 * Unit
    /\ resp[1].out.E.otherDebtMan = 875 * Unit
    /\ resp[1].out.E.loanRequestMan = 3000 * Unit
    /\ DtiRemainder(resp[1].out.E) < 0
    /\ resp[1].out.required.reduceOtherDebtMan = 7292 * (Unit \div 10)
    /\ resp[1].out.required.reduceLoanManForDTI = 0

\* C22 (as claimed): for every request with incomeMan > 0, loanRequestMan > 0
\* and assetsMan >= 0, a second request that differs only by adding the
\* reported increaseAssetsManForDownPayment to assetsMan has downPaymentPct >=
\* downPaymentMinPct and no down-payment reason.
C22_AdvisedAssetsClearDown ==
    (/\ resp # <<>>
     /\ hist # <<>>
     /\ resp[1].body = WithAssetsIncreased(hist[1])
     /\ hist[1].out.E.incomeMan > 0
     /\ hist[1].out.E.loanRequestMan > 0
     /\ hist[1].out.E.assetsMan >= 0) =>
        /\ resp[1].out.raw.downPaymentPct >= POLICY.downPaymentMinPct * Unit
        /\ "DOWN_UNDER" \notin Range(resp[1].out.gateReasons)

\* C22, divergence: the advice 33.3 for a loan of 3000 and assets of 300 is
\* 333.33 - 300 rounded down; with assets 333.3 the down payment is 9.9991 %
\* and the gate holds on it again.
C22_Divergence ==
    /\ resp # <<>>
    /\ hist # <<>>
    /\ hist[1].out.E.loanRequestMan = 3000 * Unit
    /\ hist[1].out.E.assetsMan = 300 * Unit
    /\ hist[1].out.required.increaseAssetsManForDownPayment = 333 * (Unit \div 10)
    /\ resp[1].body = WithAssetsIncreased(hist[1])
    /\ resp[1].out.E.assetsMan = 3333 * (Unit \div 10)
    /\ "DOWN_UNDER" \in Range(resp[1].out.gateReasons)

\* x to one decimal, a half rounded away from zero
HalfAwayFromZero(x) ==
    LET tenth == Unit \div 10
        whole == Abs(x) \div tenth
        up == 2 * (Abs(x) % tenth) >= tenth
        mag == IF up THEN whole + 1 ELSE whole
    IN  IF x < 0 THEN -(mag * tenth) ELSE mag * tenth

\* x to one decimal, a half rounded toward positive infinity
HalfUp(x) ==
    LET tenth == Unit \div 10
        below == x \div tenth              \* the tenths at or below x
    IN  IF 2 * (x - below * tenth) >= tenth THEN (below + 1) * tenth ELSE below * tenth

\* The values a response reports through round1, each with its value before
\* rounding: the three ratios, the principal, the three headroom distances
\* and the advised increase of the assets
Reported(o) ==
    <<[exact |-> o.raw.dtiPct, shown |-> o.metrics.dtiPct],
      [exact |-> o.raw.downPaymentPct, shown |-> o.metrics.downPaymentPct],
      [exact |-> o.raw.lti, shown |-> o.metrics.lti],
      [exact |-> o.E.loanRequestMan, shown |-> o.metrics.principalMan],
      [exact |-> Distances(o.raw)[1], shown |-> o.headroom.dtiPct],
      [exact |-> Distances(o.raw)[2], shown |-> o.headroom.downPaymentPct],
      [exact |-> Distances(o.raw)[3], shown |-> o.headroom.lti],
      [exact |-> IF o.E.incomeMan > 0 /\ o.E.loanRequestMan > 0
                 THEN Max(0, MulDiv(o.E.loanRequestMan, POLICY.downPaymentMinPct,
                                    100 - POLICY.downPaymentMinPct) - o.E.assetsMan)
                 ELSE 0,
       shown |-> o.required.increaseAssetsManForDownPayment]>>

\* C23 (as claimed): every value that round1 reports is the exact value to
\* one decimal with halves rounded away from zero, negative values included
\* (-0.25 is reported as -0.3, 0.25 as 0.3).
C23_HalvesAwayFromZero ==
    resp # <<>> =>
        \A i \in DOMAIN Reported(resp[1].out) :
            Reported(resp[1].out)[i].shown = HalfAwayFromZero(Reported(resp[1].out)[i].exact)

\* C23 (amended): every value that round1 reports is the exact value to one
\* decimal with halves rounded toward positive infinity (-0.25 is reported as
\* -0.2, 0.25 as 0.3).
C23_HalvesUp ==
    resp # <<>> =>
        \A i \in DOMAIN Reported(resp[1].out) :
            Reported(resp[1].out)[i].shown = HalfUp(Reported(resp[1].out)[i].exact)

\* LTI 7.25: the metric 7.25 is reported as 7.3 and the headroom -0.25 as -0.2
C23_Witness ==
    /\ resp # <<>>
    /\ resp[1].out.raw.lti = 725 * (Unit \div 100)
    /\ resp[1].out.metrics.lti = 73 * (Unit \div 10)
    /\ Distances(resp[1].out.raw)[3] = -(25 * (Unit \div 100))
    /\ resp[1].out.headroom.lti = -(2 * (Unit \div 10))

\* The constraint a Plan A addresses, by its impact line; "none" is the
\* build-margin plan
PlanAKind(plan) ==
    CASE plan.impact = "reach the minimum down payment" -> "DOWN"
      [] plan.impact = "bring DTI back under the limit" -> "DTI"
      [] plan.impact = "bring LTI back under the guide" -> "LTI"
      [] OTHER -> "none"

\* C24 (as claimed): in every response Plan A is the build-margin plan only
\* when the decision is PASS; whenever the decision is HOLD, Plan A is one of
\* the DOWN, DTI or LTI plans and matches the returned bottleneck.
C24_PlanAFollowsDecision ==
    resp # <<>> =>
        LET o == resp[1].out
            planA == o.plans[1]
        IN  /\ PlanAKind(planA) = "none" => o.result = "PASS"
            /\ o.result = "HOLD" =>
                  /\ PlanAKind(planA) \in {"DOWN", "DTI", "LTI"}
                  /\ PlanAKind(planA) = o.bottleneck

\* C24, divergence: with income 0, loan 900 and assets 100 the decision is
\* HOLD on the income, the down payment is exactly 10 %, no ratio has a gap,
\* and Plan A is the build-margin plan.
C24_Divergence ==
    /\ resp # <<>>
    /\ resp[1].out.E.incomeMan = 0
    /\ resp[1].out.E.loanRequestMan = 900 * Unit
    /\ resp[1].out.E.assetsMan = 100 * Unit
    /\ resp[1].out.result = "HOLD"
    /\ resp[1].out.gateReasons = <<"INCOME_INVALID">>
    /\ resp[1].out.bottleneck = "none"
    /\ resp[1].out.plans[1].title = "Plan A (build margin)"

\* C25 (as claimed): for every request with valid inputs the gate agrees with
\* the rounded metrics of the same response: the DTI reason is in gateReasons
\* iff metrics.dtiPct > 35, the down-payment reason iff metrics.downPaymentPct
\* < 10, and the LTI reason iff metrics.lti > 7.
C25_GateAgreesWithMetrics ==
    (resp # <<>> /\ ValidInput(resp[1].out)) =>
        LET o == resp[1].out
            reasons == Range(o.gateReasons)
        IN  /\ ("DTI_OVER" \in reasons) <=> (o.metrics.dtiPct > POLICY.dtiMaxPct * Unit)
            /\ ("DOWN_UNDER" \in reasons)
                   <=> (o.metrics.downPaymentPct < POLICY.downPaymentMinPct * Unit)
            /\ ("LTI_OVER" \in reasons) <=> (o.metrics.lti > POLICY.ltiMax * Unit)

\* C25, divergence: with income 100 and loan 701 the LTI is 7.01, the gate
\* holds with the LTI reason, and the reported metric is 7.
C25_Divergence ==
    /\ resp # <<>>
    /\ ValidInput(resp[1].out)
    /\ resp[1].out.raw.lti = 701 * (Unit \div 100)
    /\ "LTI_OVER" \in Range(resp[1].out.gateReasons)
    /\ resp[1].out.metrics.lti = POLICY.ltiMax * Unit

\* C26 (as claimed): for every request with valid inputs whose gateReasons
\* hold the DTI reason, at least one of the reported reduceLoanManForDTI and
\* reduceOtherDebtMan is > 0.
C26_DtiAdviceIsPositive ==
    (resp # <<>> /\ ValidInput(resp[1].out) /\ "DTI_OVER" \in Range(resp[1].out.gateReasons)) =>
        \/ resp[1].out.required.reduceLoanManForDTI > 0
        \/ resp[1].out.required.reduceOtherDebtMan > 0

\* C26, divergence: with income 600, other debt 875 and loan 3000 the
\* other-debt payment is exactly the DTI budget 17.5; the DTI is 53.4 %, the
\* bottleneck is DTI, and both advised reductions are 0.
C26_Divergence ==
    /\ resp # <<>>
    /\ resp[1].out.E.incomeMan = 600 * Unit
    /\ resp[1].out.E.otherDebtMan = 875 * Unit
    /\ resp[1].out.E.loanRequestMan = 3000 * Unit
    /\ resp[1].out.E.assetsMan = 1000 * Unit
    /\ DtiRemainder(resp[1].out.E) = 0
    /\ "DTI_OVER" \in Range(resp[1].out.gateReasons)
    /\ resp[1].out.bottleneck = "DTI"
    /\ resp[1].out.plans[1].steps = <<Step("loan -", 0), Step("(alt) other debt -", 0)>>

\* C27 (as claimed): for every request the reported reduceLoanManForDTI is <=
\* loanRequestMan and the reported reduceOtherDebtMan is <= otherDebtMan.
C27_ReduceWithinAmount ==
    resp # <<>> =>
        /\ resp[1].out.required.reduceLoanManForDTI <= resp[1].out.E.loanRequestMan
        /\ resp[1].out.required.reduceOtherDebtMan <= resp[1].out.E.otherDebtMan

\* C27 (amended): the reported reduceLoanManForDTI is <= loanRequestMan
\* rounded to one decimal whenever loanRequestMan >= 0, and the reported
\* reduceOtherDebtMan is <= otherDebtMan rounded to one decimal whenever
\* otherDebtMan >= 0.
C27_ReduceWithinRoundedAmount ==
    resp # <<>> =>
        LET E == resp[1].out.E
            required == resp[1].out.required
        IN  /\ E.loanRequestMan >= 0 => required.reduceLoanManForDTI <= HalfUp(E.loanRequestMan)
            /\ E.otherDebtMan >= 0 => required.reduceOtherDebtMan <= HalfUp(E.otherDebtMan)

\* Income 600, other debt 874.998, loan 0.07: the affordable principal is
\* 0.013, the reduction 0.057 is reported as 0.1, above the loan itself
C27_Witness ==
    /\ resp # <<>>
    /\ resp[1].out.E.incomeMan = 600 * Unit
    /\ resp[1].out.E.loanRequestMan = 7 * (Unit \div 100)
    /\ DtiRemainder(resp[1].out.E) > 0
    /\ resp[1].out.required.reduceLoanManForDTI = Unit \div 10
    /\ resp[1].out.required.reduceOtherDebtMan = 0

\* C28: in the Home page, under any interleaving of clicks, edits, checkbox
\* toggles and server responses, a request is started only when isLoading is
\* false, at least one form field is non-empty and both confirmation
\* checkboxes are checked, and never while another request is in flight.
C28_StartsOnlyWhenAllowed ==
    [][(home # <<>> /\ home' # <<>> /\ Len(home'[1].calls) > Len(home[1].calls)) =>
          /\ ~home[1].state.isLoading
          /\ \E f \in FormFields : home[1].state.form[f] # ""
          /\ home[1].state.confirmTruth
          /\ home[1].state.confirmNoDecision
          /\ home[1].calls = <<>>]_vars

\* A request is in flight, and the user has meanwhile cleared the form and
\* unchecked both boxes
C28_Witness ==
    /\ home # <<>>
    /\ Len(home[1].calls) = 1
    /\ home[1].calls[1].await = "json"
    /\ home[1].calls[1].form.incomeMan = "600"
    /\ home[1].state.isLoading
    /\ home[1].state.form = initialForm
    /\ ~home[1].state.confirmTruth
    /\ ~home[1].state.confirmNoDecision

\* The Action Loop state of the page as onGenerate resets it
ActionLoopReset(S) == ~S.showAction /\ S.actionPath = <<>> /\ S.commitNote = ""

\* C29: in the Home page, while a request is in flight result and error are
\* both null and the Action Loop state is reset; every started request that
\* completes (success, non-2xx status or thrown failure) leaves isLoading
\* false with exactly one of result and error non-null.
C29_CleanInFlightThenSettled ==
    /\ [](home # <<>> /\ home[1].calls # <<>> =>
            /\ home[1].state.result = <<>>
            /\ home[1].state.error = <<>>
            /\ ActionLoopReset(home[1].state))
    /\ [][(home # <<>> /\ home' # <<>> /\ Len(home'[1].calls) < Len(home[1].calls)) =>
            /\ ~home'[1].state.isLoading
            /\ (home'[1].state.result # <<>>) # (home'[1].state.error # <<>>)]_vars

\* A request answered with a non-2xx status has just completed: the error is
\* set and isLoading is false, and the page has not rendered that yet
C29_Witness ==
    /\ home # <<>>
    /\ home[1].calls = <<>>
    /\ home[1].state.error = <<"API error">>
    /\ home[1].state.result = <<>>
    /\ ~home[1].state.isLoading
    /\ home[1].view.isLoading
    /\ home[1].view.error = <<>>

\* C30: for every combination of form inputs under the default policy, the
\* page's calcDerivedMetrics returns the same seven rounded metrics as the
\* handler puts in Lambda.metrics for the same inputs.
C30_ClientMetricsMatchServer ==
    (calc # <<>> /\ calc[1].stage = "derived") =>
        /\ DOMAIN calc[1].client[1] = DOMAIN calc[1].server[1]
        /\ Cardinality(DOMAIN calc[1].client[1]) = 7
        /\ \A m \in DOMAIN calc[1].server[1] : calc[1].client[1][m] = calc[1].server[1][m]

\* Income 600, loan 2000, assets left empty, other debt not a number: both
\* sides report a DTI of 12.2 and no other-debt payment
C30_Witness ==
    /\ calc # <<>>
    /\ calc[1].stage = "derived"
    /\ calc[1].form.incomeMan = "600"
    /\ calc[1].form.loanRequestMan = "2000"
    /\ calc[1].form.assetsMan = ""
    /\ calc[1].form.otherDebtMan = "abc"
    /\ calc[1].client[1].dtiPct = 122 * (Unit \div 10)
    /\ calc[1].server[1].dtiPct = 122 * (Unit \div 10)
    /\ calc[1].server[1].estOtherDebtPayMan = 0

====
